---- MODULE Spec2Model ----
(***************************************************************************)
(* A model of the repository / audit / history / cache pipeline of the     *)
(* zendia framework: the in-memory store, the document-database store with *)
(* its filter sanitization, the audit decorators, the history decorator    *)
(* and the cache decorator over the in-memory cache store.                  *)
(*                                                                         *)
(* Go values are modelled as follows.  A UUID is a string; NilUUID is      *)
(* uuid.Nil.  A BSON value is a tagged tuple (<<"str", s>>, <<"bin", u>>,  *)
(* <<"nil">>, ...), a BSON document a function from field names to such    *)
(* values.  An entity (the Go struct) is a record over its Go field names. *)
(* A nullable field is a sequence of length 0 (nil) or 1.                  *)
(***************************************************************************)
EXTENDS Integers, Sequences, FiniteSets, TLC

VARIABLES
    now,         \* the wall clock (time.Now), in ticks
    entityKind,  \* which audit hooks the entity type T implements: "rich" | "legacy"
    coll,        \* the document collection: _id -> document (NoDoc when absent)
    data,        \* MemoryRepository.data: id -> entity (NoDoc when absent)
    items,       \* MemoryCache.items: full key -> cacheItem
    size,        \* MemoryCache.size
    baseKind,    \* the store the Cache decorator wraps: "memory" | "audit"
    histLog,     \* the history collection, in insertion order
    deletedIds,  \* ids whose Delete through an audited store succeeded, not restored since
    dirty,       \* <<id, e>>: id was written through the Cache decorator and not read
                 \* through it since; e tells whether a write found a cached entry of id
    createdStamp, \* id -> the Created stamp an Audit decorator's Create gave the
                 \* record now stored under id (None for none)
    calls,       \* goroutine -> the call it is in the middle of (Idle for none)
    lastSet,     \* cache key -> the value, instant and expiry of the last direct Set of
                 \* the key, not deleted or cleared since (None for none)
    stats,       \* Metrics.stats: endpoint key -> EndpointStats
    activeRequests, \* Metrics.ActiveRequests
    lastOp       \* the last call made and what it returned (observation only)

vars == <<now, entityKind, coll, data, items, size, baseKind, histLog, deletedIds, dirty, createdStamp, calls, lastSet, stats, activeRequests, lastOp>>

----------------------------------------------------------------------------
(* Bounds of the model. *)

MaxTime == 3
MaxHist == 2

----------------------------------------------------------------------------
(* Value domains. *)

NilUUID == "00000000"
IDs == {"id1", "id2"}
TenantA == "aaaaaaaa"
TenantB == "bbbbbbbb"
WellFormedUUIDs == IDs \cup {TenantA, TenantB, "user1", NilUUID}
\* Tenant IDs a request may carry: none, two tenants, and one that is no UUID.
CtxTenants == {"", TenantA, TenantB, "t1"}
CtxUsers == {"user1"}
Names == {"Ana", "Bob"}

\* Concurrent callers of one shared store, and a caller between two calls.
Goroutines == {"g1", "g2"}
CacheKeys == {"k1", "k2"}
Idle == [op |-> "idle", pc |-> "idle", target |-> "none", mode |-> "none", id |-> "",
         name |-> "", locked |-> FALSE]

None == <<>>
Some(x) == <<x>>

NoDoc == <<>>

\* BSON values.
Str(s) == <<"str", s>>
Bin(u) == <<"bin", u>>
NilV == <<"nil">>
BoolV(b) == <<"bool", b>>
TimeV(t) == <<"time", t>>
IntV(n) == <<"int", n>>
MapV(m) == <<"map", m>>
UUIDV(u) == <<"uuid", u>>
IsStr(v) == v[1] = "str"
IsMap(v) == v[1] = "map"

\* Error kinds.  "panic" is a Go panic escaping the call.
OK == "ok"
NotFound == "NotFound"
Validation == "Validation"
Internal == "Internal"
Panic == "panic"

----------------------------------------------------------------------------
(* Tenant context. *)

TenantInfo(t, u) == [TenantID |-> t, UserID |-> u, UserName |-> u, ActionAt |-> now]

\* uuid.Parse: succeeds exactly on well-formed UUID strings.
ParseOK(s) == s \in WellFormedUUIDs

----------------------------------------------------------------------------
(* Strings. *)

UpperChars == "ABCDEFGHIJKLMNOPQRSTUVWXYZ"
LowerChars == "abcdefghijklmnopqrstuvwxyz"
DigitChars == "0123456789"

CharAt(s, i) == SubSeq(s, i, i)

\* strings.Contains
Contains(s, pat) ==
    \E i \in 1..(Len(s) - Len(pat) + 1) : SubSeq(s, i, i + Len(pat) - 1) = pat

InChars(c, chars) == \E i \in 1..Len(chars) : CharAt(chars, i) = c

LowerChar(c) ==
    IF InChars(c, UpperChars)
    THEN CharAt(LowerChars, CHOOSE i \in 1..Len(UpperChars) : CharAt(UpperChars, i) = c)
    ELSE c

RECURSIVE ToLower(_)
\* strings.ToLower
ToLower(s) ==
    IF Len(s) = 0 THEN s ELSE LowerChar(CharAt(s, 1)) \o ToLower(SubSeq(s, 2, Len(s)))

----------------------------------------------------------------------------
(* Filter sanitization of the document-database store. *)

MaxFilterKeys == 20
MaxNameTail == 50
MaxStringLen == 1000
MaxArrayLen == 100
MaxNesting == 3

allowedFilterKeys ==
    {"_id", "tenant_id", "name", "email", "status", "active",
     "created.set_at", "created.by_name", "created.by_id", "created.active",
     "updated.set_at", "updated.by_name", "updated.by_id",
     "deleted.set_at", "deleted.by_name", "deleted.by_id", "deleted.active"}

\* ^[a-zA-Z_][a-zA-Z0-9_]{0,50}$
validPattern(s) ==
    /\ Len(s) >= 1
    /\ Len(s) - 1 <= MaxNameTail
    /\ InChars(CharAt(s, 1), UpperChars \o LowerChars \o "_")
    /\ \A i \in 2..Len(s) : InChars(CharAt(s, i), UpperChars \o LowerChars \o DigitChars \o "_")

dangerousKeyPatterns == {"$", ".", "javascript", "eval", "function", "where"}
dangerousValuePatterns == {"$", "javascript:", "eval(", "function(", "where"}

isValidFieldName(fieldName) ==
    \/ fieldName \in allowedFilterKeys
    \/ /\ validPattern(fieldName)
       /\ \A pat \in dangerousKeyPatterns : ~Contains(ToLower(fieldName), pat)

RECURSIVE sanitizeFilterValue(_)
RECURSIVE sanitizeNestedObject(_, _)

\* Returns [ok |-> TRUE, v |-> sanitized value] or [ok |-> FALSE].
sanitizeFilterValue(value) ==
    CASE value[1] = "nil" -> [ok |-> TRUE, v |-> NilV]
      [] value[1] = "str" ->
            IF Len(value[2]) > MaxStringLen THEN [ok |-> FALSE, v |-> NilV]
            ELSE IF \E pat \in dangerousValuePatterns : Contains(ToLower(value[2]), pat)
                 THEN [ok |-> FALSE, v |-> NilV]
                 ELSE [ok |-> TRUE, v |-> value]
      [] value[1] \in {"int", "bool", "oid"} -> [ok |-> TRUE, v |-> value]
      [] value[1] = "uuid" -> [ok |-> TRUE, v |-> Bin(value[2])]
      [] value[1] = "map" -> sanitizeNestedObject(value[2], 1)
      [] OTHER ->
            IF value[1] = "arr" /\ Len(value[2]) > MaxArrayLen
            THEN [ok |-> FALSE, v |-> NilV]
            ELSE [ok |-> TRUE, v |-> value]

sanitizeNestedObject(obj, depth) ==
    IF depth > MaxNesting THEN [ok |-> FALSE, v |-> NilV]
    ELSE LET san == [k \in {x \in DOMAIN obj : isValidFieldName(x)} |-> sanitizeFilterValue(obj[k])]
         IN [ok |-> TRUE, v |-> MapV([k \in {x \in DOMAIN san : san[x].ok} |-> san[k].v])]

\* Returns [ok |-> TRUE, m |-> the sanitized bson.M] or [ok |-> FALSE].
sanitizeFilters(filters) ==
    IF Cardinality(DOMAIN filters) > MaxFilterKeys THEN [ok |-> FALSE, m |-> <<>>]
    ELSE LET san == [k \in {x \in DOMAIN filters : isValidFieldName(x)} |->
                        sanitizeFilterValue(filters[k])]
         IN [ok |-> TRUE, m |-> [k \in {x \in DOMAIN san : san[x].ok} |-> san[k].v]]


----------------------------------------------------------------------------
(* Entities and their documents. *)

\* AuditInfo; ZeroInfo is its Go zero value.
AuditInfo(at, by, active) == [SetAt |-> at, ByID |-> by, Active |-> active]
ZeroInfo == AuditInfo(0, NilUUID, FALSE)

\* An entity with the rich audit hooks (SetCreated/SetUpdated/SetDeleted).
RichEntity(id, tenant, name, active, created, updated, deleted) ==
    [ID |-> id, TenantID |-> tenant, Name |-> name, Active |-> active,
     Created |-> created, Updated |-> updated, Deleted |-> deleted]

\* An entity with only the legacy hooks (SetCreatedAt/SetUpdatedAt/...).
LegacyEntity(id, tenant, name, cat, uat, cby, uby, dat, dby) ==
    [ID |-> id, TenantID |-> tenant, Name |-> name,
     CreatedAt |-> cat, UpdatedAt |-> uat, CreatedBy |-> cby, UpdatedBy |-> uby,
     DeletedAt |-> dat, DeletedBy |-> dby]

IsRich(e) == "Created" \in DOMAIN e

InfoDoc(a) == MapV([set_at |-> TimeV(a.SetAt), by_id |-> Bin(a.ByID), active |-> BoolV(a.Active)])
DocInfo(v) == AuditInfo(v[2].set_at[2], v[2].by_id[2], v[2].active[2])

\* The document written for an entity: UUIDs become binary subtype 4, a nil
\* Deleted / DeletedAt is left out of the document.
convertUUIDs(e) ==
    IF IsRich(e)
    THEN LET d == [_id |-> Bin(e.ID), tenant_id |-> Bin(e.TenantID), name |-> Str(e.Name),
                   active |-> BoolV(e.Active),
                   created |-> InfoDoc(e.Created), updated |-> InfoDoc(e.Updated)]
         IN IF e.Deleted = None THEN d
            ELSE [k \in DOMAIN d \cup {"deleted"} |->
                    IF k = "deleted" THEN InfoDoc(e.Deleted[1]) ELSE d[k]]
    ELSE LET d == [_id |-> Bin(e.ID), tenant_id |-> Bin(e.TenantID), name |-> Str(e.Name),
                   created_at |-> TimeV(e.CreatedAt), updated_at |-> TimeV(e.UpdatedAt),
                   created_by |-> Str(e.CreatedBy), updated_by |-> Str(e.UpdatedBy),
                   deleted_by |-> Str(e.DeletedBy)]
         IN IF e.DeletedAt = None THEN d
            ELSE [k \in DOMAIN d \cup {"deleted_at"} |->
                    IF k = "deleted_at" THEN TimeV(e.DeletedAt[1]) ELSE d[k]]

\* Decode: the entity read back from a document.
Decode(d) ==
    IF "created" \in DOMAIN d
    THEN RichEntity(d._id[2], d.tenant_id[2], d.name[2], d.active[2],
                    DocInfo(d.created), DocInfo(d.updated),
                    IF "deleted" \in DOMAIN d /\ d.deleted # NilV
                    THEN Some(DocInfo(d.deleted)) ELSE None)
    ELSE LegacyEntity(d._id[2], d.tenant_id[2], d.name[2], d.created_at[2], d.updated_at[2],
                      d.created_by[2], d.updated_by[2],
                      IF "deleted_at" \in DOMAIN d THEN Some(d.deleted_at[2]) ELSE None,
                      d.deleted_by[2])

----------------------------------------------------------------------------
(* The document database: how a native filter selects documents. *)

DotAt(k) == CHOOSE i \in 1..Len(k) : CharAt(k, i) = "."

\* The value of field k (possibly a dotted path) of document d; null when absent.
FieldOf(d, k) ==
    IF k \in DOMAIN d THEN d[k]
    ELSE IF Contains(k, ".")
         THEN LET parent == SubSeq(k, 1, DotAt(k) - 1)
                  child == SubSeq(k, DotAt(k) + 1, Len(k))
              IN IF parent \in DOMAIN d /\ IsMap(d[parent]) /\ child \in DOMAIN d[parent][2]
                 THEN d[parent][2][child] ELSE NilV
         ELSE NilV

MatchField(d, k, v) ==
    IF CharAt(k, 1) = "$" THEN TRUE     \* a top-level operator, e.g. $where "true"
    ELSE IF IsMap(v) /\ DOMAIN v[2] = {"$ne"} THEN FieldOf(d, k) # v[2]["$ne"]
    ELSE FieldOf(d, k) = v

Matches(d, filter) == \A k \in DOMAIN filter : MatchField(d, k, filter[k])

\* collection.Find / FindOne: the documents of c the filter selects.
Find(c, filter) == {c[i] : i \in {j \in DOMAIN c : c[j] # NoDoc /\ Matches(c[j], filter)}}

\* $set: the document after setting every field of upd.
SetFields(d, upd) ==
    [k \in DOMAIN d \cup DOMAIN upd |-> IF k \in DOMAIN upd THEN upd[k] ELSE d[k]]

\* $unset
UnsetField(d, f) == [k \in DOMAIN d \ {f} |-> d[k]]

\* A filter with one more constraint (filter[k] = v in Go: v replaces an earlier value).
With(filter, k, v) ==
    [x \in DOMAIN filter \cup {k} |-> IF x = k THEN v ELSE filter[x]]


----------------------------------------------------------------------------
(* MongoAuditRepository: the audited document store.  Each operation is an *)
(* operator from the collection c, the tenant context ti and its arguments *)
(* to a result: the error kind, the entities returned (a sequence), the    *)
(* collection afterwards and the native filters handed to the driver.      *)

Result(err, out, c, queries) == [err |-> err, out |-> out, coll |-> c, queries |-> queries]

IdOrder == <<"id1", "id2">>

\* The documents of c a filter selects, decoded, in the collection's natural order.
FindAll(c, filter) ==
    LET hit(i) == c[IdOrder[i]] # NoDoc /\ Matches(c[IdOrder[i]], filter)
        idx == SelectSeq([i \in 1..Len(IdOrder) |-> i], hit)
    IN [n \in 1..Len(idx) |-> Decode(c[IdOrder[idx[n]]])]

\* filter["tenant_id"] = binary(tenant), when the tenant ID is set and parses.
TenantScoped(filter, ti) ==
    IF ti.TenantID # "" /\ ParseOK(ti.TenantID)
    THEN With(filter, "tenant_id", Bin(ti.TenantID))
    ELSE filter

\* SetTenantID of an entity whose TenantID is a uuid.UUID: uuid.MustParse(s).
SetTenantIDPanics(s) == ~ParseOK(s)

\* uuid.MustParse(tenantInfo.UserID), guarded by UserID != "".
UserIDPanics(ti) == ti.UserID # "" /\ ~ParseOK(ti.UserID)
UserUUID(ti) == IF ti.UserID # "" THEN ti.UserID ELSE NilUUID

MAR_GetByID(c, ti, id) ==
    LET filter == TenantScoped([_id |-> Bin(id), deleted |-> NilV], ti)
        found == FindAll(c, filter)
    IN IF found = <<>> THEN Result(NotFound, <<>>, c, <<filter>>)
       ELSE Result(OK, <<found[1]>>, c, <<filter>>)

\* The merge of the sanitized caller filters into the implicit ones: filter[k] = v.
MergeFilters(implicit, sanitized) ==
    [k \in DOMAIN implicit \cup DOMAIN sanitized |->
        IF k \in DOMAIN sanitized THEN sanitized[k] ELSE implicit[k]]

\* The native filter of GetFirst / GetAll, or the error that ends the call.
ReadFilter(ti, filters) ==
    LET san == sanitizeFilters(filters)
    IN IF ti.TenantID # "" /\ ~ParseOK(ti.TenantID) THEN [err |-> Validation, f |-> <<>>]
       ELSE IF ~san.ok THEN [err |-> Validation, f |-> <<>>]
       ELSE [err |-> OK, f |-> MergeFilters(TenantScoped([deleted |-> NilV], ti), san.m)]

MAR_GetAll(c, ti, filters) ==
    LET rf == ReadFilter(ti, filters)
    IN IF rf.err # OK THEN Result(rf.err, <<>>, c, <<>>)
       ELSE Result(OK, FindAll(c, rf.f), c, <<rf.f>>)

MAR_List(c, ti, filters) == MAR_GetAll(c, ti, filters)

\* GetFirst returns the n-th matching document (the driver picks one).
MAR_GetFirst(c, ti, filters, n) ==
    LET rf == ReadFilter(ti, filters)
        found == FindAll(c, rf.f)
    IN IF rf.err # OK THEN Result(rf.err, <<>>, c, <<>>)
       ELSE IF found = <<>> THEN Result(NotFound, <<>>, c, <<rf.f>>)
       ELSE Result(OK, <<found[IF n <= Len(found) THEN n ELSE 1]>>, c, <<rf.f>>)

\* The caller's filters copied into the native filter as they are: filter[k] = v.
RawMerge(implicit, filters) ==
    [k \in DOMAIN implicit \cup DOMAIN filters |->
        IF k \in DOMAIN filters THEN filters[k] ELSE implicit[k]]

\* options.Find().SetSkip(skip).SetLimit(take) applied to a result list: a limit
\* of 0 is no limit, a negative limit is its absolute value.
SkipLimit(list, skip, take) ==
    LET rest == SubSeq(list, skip + 1, Len(list))
        lim == IF take < 0 THEN 0 - take ELSE take
    IN IF lim = 0 \/ lim >= Len(rest) THEN rest ELSE SubSeq(rest, 1, lim)

MAR_GetAllSkipTake(c, ti, filters, skip, take) ==
    LET filter == RawMerge(TenantScoped([deleted |-> NilV], ti), filters)
    IN IF skip < 0 THEN Result(Internal, <<>>, c, <<filter>>)   \* the server refuses a negative skip
       ELSE Result(OK, SkipLimit(FindAll(c, filter), skip, take), c, <<filter>>)

MAR_GetAllIncludingDeleted(c, ti, filters) ==
    LET filter == RawMerge(TenantScoped(<<>>, ti), filters)
    IN Result(OK, FindAll(c, filter), c, <<filter>>)

MAR_GetDeleted(c, ti, filters) ==
    LET filter == RawMerge(TenantScoped([deleted |-> MapV([x \in {"$ne"} |-> NilV])], ti), filters)
    IN Result(OK, FindAll(c, filter), c, <<filter>>)


\* FindOneAndUpdate(filter, {$set: doc}, ReturnDocument(After)): the first document
\* the filter selects is updated; the server refuses a $set that changes _id.
FindOneAndUpdate(c, filter, doc) ==
    LET hits == {i \in DOMAIN c : c[i] # NoDoc /\ Matches(c[i], filter)}
        i == CHOOSE j \in hits : TRUE
    IN IF hits = {} THEN Result(NotFound, <<>>, c, <<filter>>)
       ELSE IF doc._id # c[i]._id THEN Result(Internal, <<>>, c, <<filter>>)
       ELSE Result(OK, <<Decode(SetFields(c[i], doc))>>,
                   [c EXCEPT ![i] = SetFields(c[i], doc)], <<filter>>)

\* The payload as Update stamps it: Updated for the rich hooks, nothing for the
\* legacy ones, then the context's tenant.
StampUpdate(entity, ti) ==
    IF IsRich(entity)
    THEN [entity EXCEPT !.Updated = AuditInfo(ti.ActionAt, UserUUID(ti), FALSE),
                        !.TenantID = ti.TenantID]
    ELSE [entity EXCEPT !.TenantID = ti.TenantID]

MAR_Update(c, ti, id, entity) ==
    IF IsRich(entity) /\ UserIDPanics(ti) THEN Result(Panic, <<>>, c, <<>>)
    ELSE IF SetTenantIDPanics(ti.TenantID) THEN Result(Panic, <<>>, c, <<>>)
    ELSE FindOneAndUpdate(c, TenantScoped([_id |-> Bin(id)], ti),
                          convertUUIDs(StampUpdate(entity, ti)))

\* The payload as Create stamps it; newID is the uuid.New() used for a nil ID.
StampCreate(entity, ti, newID) ==
    LET withID == IF entity.ID = NilUUID THEN [entity EXCEPT !.ID = newID] ELSE entity
    IN IF IsRich(entity)
       THEN [withID EXCEPT !.Created = AuditInfo(ti.ActionAt, UserUUID(ti), FALSE),
                           !.Updated = AuditInfo(ti.ActionAt, UserUUID(ti), FALSE),
                           !.TenantID = ti.TenantID]
       ELSE [withID EXCEPT !.CreatedAt = ti.ActionAt, !.UpdatedAt = ti.ActionAt,
                           !.CreatedBy = ti.UserID, !.UpdatedBy = ti.UserID,
                           !.TenantID = ti.TenantID]

MAR_Create(c, ti, entity, newID) ==
    IF IsRich(entity) /\ UserIDPanics(ti) THEN Result(Panic, <<>>, c, <<>>)
    ELSE IF SetTenantIDPanics(ti.TenantID) THEN Result(Panic, <<>>, c, <<>>)
    ELSE LET e == StampCreate(entity, ti, newID)
         IN IF c[e.ID] # NoDoc THEN Result(Internal, <<>>, c, <<>>)   \* duplicate key
            ELSE Result(OK, <<e>>, [c EXCEPT ![e.ID] = convertUUIDs(e)], <<>>)

\* The legacy branch of Delete: UpdateOne(filter, {$set: {deleted_at, deleted_by}}).
LegacySoftDelete(c, ti, id) ==
    LET filter == IF ti.TenantID # ""
                  THEN [_id |-> Bin(id),
                        tenant_id |-> Bin(IF ParseOK(ti.TenantID) THEN ti.TenantID ELSE NilUUID)]
                  ELSE [_id |-> Bin(id)]
        upd == [deleted_at |-> TimeV(ti.ActionAt), deleted_by |-> Str(ti.UserID)]
        hits == {i \in DOMAIN c : c[i] # NoDoc /\ Matches(c[i], filter)}
        i == CHOOSE j \in hits : TRUE
    IN IF hits = {} \/ SetFields(c[i], upd) = c[i]      \* ModifiedCount == 0
       THEN Result(NotFound, <<>>, c, <<filter>>)
       ELSE Result(OK, <<>>, [c EXCEPT ![i] = SetFields(c[i], upd)], <<filter>>)

MAR_Delete(c, ti, id) ==
    LET got == MAR_GetByID(c, ti, id)
    IN IF got.err # OK THEN got
       ELSE IF IsRich(got.out[1])
            THEN IF UserIDPanics(ti) THEN Result(Panic, <<>>, c, got.queries)
                 ELSE LET stamped == [got.out[1] EXCEPT
                                        !.Deleted = Some(AuditInfo(ti.ActionAt, UserUUID(ti), FALSE))]
                          upd == MAR_Update(c, ti, id, stamped)
                      IN Result(upd.err, <<>>, upd.coll, got.queries \o upd.queries)
            ELSE LET soft == LegacySoftDelete(c, ti, id)
                 IN Result(soft.err, <<>>, soft.coll, got.queries \o soft.queries)

MAR_HardDelete(c, ti, id) ==
    LET filter == TenantScoped([_id |-> Bin(id)], ti)
        hits == {i \in DOMAIN c : c[i] # NoDoc /\ Matches(c[i], filter)}
    IN IF hits = {} THEN Result(NotFound, <<>>, c, <<filter>>)
       ELSE Result(OK, <<>>, [c EXCEPT ![CHOOSE j \in hits : TRUE] = NoDoc], <<filter>>)

MAR_Restore(c, ti, id) ==
    LET filter == TenantScoped([_id |-> Bin(id), deleted |-> MapV([x \in {"$ne"} |-> NilV])], ti)
        hits == {i \in DOMAIN c : c[i] # NoDoc /\ Matches(c[i], filter)}
    IN IF hits = {} THEN Result(NotFound, <<>>, c, <<filter>>)
       ELSE Result(OK, <<>>,
                   [c EXCEPT ![CHOOSE j \in hits : TRUE] = UnsetField(@, "deleted")], <<filter>>)


----------------------------------------------------------------------------
(* MemoryRepository, and the generic AuditRepository over it.  The store   *)
(* is d: id -> entity.  A Go map is ranged over in no fixed order: the     *)
(* list operations take the order of that iteration as an argument.        *)

MemResult(err, out, d) == [err |-> err, out |-> out, data |-> d, queries |-> <<>>]

\* The entities of d in the order the map iteration yields them.
Ranged(d, order) ==
    LET present == SelectSeq(order, LAMBDA i : d[i] # NoDoc)
    IN [n \in 1..Len(present) |-> d[present[n]]]

MEM_Create(d, entity, id) == MemResult(OK, <<entity>>, [d EXCEPT ![id] = entity])

MEM_GetByID(d, id) ==
    IF d[id] = NoDoc THEN MemResult(NotFound, <<>>, d) ELSE MemResult(OK, <<d[id]>>, d)

MEM_Update(d, id, entity) ==
    IF d[id] = NoDoc THEN MemResult(NotFound, <<>>, d)
    ELSE MemResult(OK, <<entity>>, [d EXCEPT ![id] = entity])

MEM_Delete(d, id) ==
    IF d[id] = NoDoc THEN MemResult(NotFound, <<>>, d)
    ELSE MemResult(OK, <<>>, [d EXCEPT ![id] = NoDoc])

MEM_GetFirst(d, order, filters) ==
    IF Ranged(d, order) = <<>> THEN MemResult(NotFound, <<>>, d)
    ELSE MemResult(OK, <<Ranged(d, order)[1]>>, d)

MEM_GetAll(d, order, filters) == MemResult(OK, Ranged(d, order), d)

MEM_List(d, order, filters) == MemResult(OK, Ranged(d, order), d)

\* The loop of GetAllSkipTake: the first skip entities are passed over, then
\* entities are appended until len(result) >= take.
MEM_GetAllSkipTake(d, order, filters, skip, take) ==
    LET all == Ranged(d, order)
        rest == SubSeq(all, (IF skip < 0 THEN 0 ELSE skip) + 1, Len(all))
        n == IF take < 0 THEN 0 ELSE IF take > Len(rest) THEN Len(rest) ELSE take
    IN MemResult(OK, SubSeq(rest, 1, n), d)

\* AuditRepository.Create's stamps: only an entity with the rich hooks is stamped.
AR_StampCreate(entity, ti) ==
    IF IsRich(entity)
    THEN [entity EXCEPT !.Created = AuditInfo(ti.ActionAt, UserUUID(ti), FALSE),
                        !.Updated = AuditInfo(ti.ActionAt, UserUUID(ti), FALSE),
                        !.Active = TRUE,
                        !.TenantID = ti.TenantID]
    ELSE entity

AR_StampUpdate_NoStamp(entity, ti) == entity

AR_StampUpdate(entity, ti) ==
    IF IsRich(entity)
    THEN [entity EXCEPT !.Updated = AuditInfo(ti.ActionAt, UserUUID(ti), FALSE),
                        !.TenantID = ti.TenantID]
    ELSE entity

AR_Panics(entity, ti) ==
    IsRich(entity) /\ (UserIDPanics(ti) \/ SetTenantIDPanics(ti.TenantID))

AR_Create(d, ti, entity, id) ==
    IF AR_Panics(entity, ti) THEN MemResult(Panic, <<>>, d)
    ELSE MEM_Create(d, AR_StampCreate(entity, ti), id)

AR_GetByID(d, ti, id) == MEM_GetByID(d, id)

AR_Update(d, ti, id, entity) ==
    IF AR_Panics(entity, ti) THEN MemResult(Panic, <<>>, d)
    ELSE MEM_Update(d, id, AR_StampUpdate(entity, ti))

AR_Delete(d, ti, id) == MEM_Delete(d, id)

\* The filters the decorator hands down: tenant_id (when set) and active = true.
AR_Filters(ti, filters) ==
    LET f == IF ti.TenantID # "" THEN With(filters, "tenant_id", Str(ti.TenantID)) ELSE filters
    IN With(f, "active", BoolV(TRUE))

\* The reads of the decorator; queries is the filter map handed to the wrapped
\* store.
AR_GetAll(d, ti, order, filters) ==
    [MEM_GetAll(d, order, AR_Filters(ti, filters)) EXCEPT !.queries = <<AR_Filters(ti, filters)>>]

AR_GetAllSkipTake(d, ti, order, filters, skip, take) ==
    [MEM_GetAllSkipTake(d, order, AR_Filters(ti, filters), skip, take)
        EXCEPT !.queries = <<AR_Filters(ti, filters)>>]

AR_GetFirst(d, ti, order, filters) ==
    [MEM_GetFirst(d, order, AR_Filters(ti, filters)) EXCEPT !.queries = <<AR_Filters(ti, filters)>>]

AR_List(d, ti, order, filters) ==
    [MEM_List(d, order, AR_Filters(ti, filters)) EXCEPT !.queries = <<AR_Filters(ti, filters)>>]


----------------------------------------------------------------------------
(* MongoRepository: the plain document store. *)

MaxTake == 1000

MR_GetAllSkipTake(c, filters, skip, take) ==
    LET san == sanitizeFilters(filters)
    IN IF skip < 0 \/ take < 0 \/ take > MaxTake THEN Result(Validation, <<>>, c, <<>>)
       ELSE IF ~san.ok THEN Result(Validation, <<>>, c, <<>>)
       ELSE Result(OK, SkipLimit(FindAll(c, san.m), skip, take), c, <<san.m>>)

----------------------------------------------------------------------------
(* HistoryManager and HistoryAuditRepository. *)

skipFields ==
    {"Created", "Updated", "DeletedAt", "DeletedBy", "CreatedAt", "UpdatedAt",
     "CreatedBy", "UpdatedBy", "TenantID", "ID"}

shouldSkipField(fieldName) == fieldName \in skipFields

\* A diff that reports the new value on both sides.
detectChanges_AfterOnly(before, after) ==
    LET changed == {f \in DOMAIN before : ~shouldSkipField(f) /\ before[f] # after[f]}
    IN [f \in changed |-> [Before |-> after[f], After |-> after[f]]]

\* The fields of the two structs that are not skipped and differ, each with its
\* value before and after.
detectChanges(before, after) ==
    LET changed == {f \in DOMAIN before : ~shouldSkipField(f) /\ before[f] # after[f]}
    IN [f \in changed |-> [Before |-> before[f], After |-> after[f]]]

\* A recording that keeps only the latest entry of the log.
RecordChanges_Replacing(log, ti, entityID, entityType, triggerName, before, after) ==
    LET changes == detectChanges(before, after)
    IN IF DOMAIN changes = {} THEN log
       ELSE <<[ID |-> Len(log) + 1,
               EntityID |-> entityID,
               EntityType |-> entityType,
               TenantID |-> IF ti.TenantID # "" THEN ti.TenantID ELSE NilUUID,
               TriggerName |-> triggerName,
               TriggerAt |-> ti.ActionAt,
               TriggerBy |-> ti.UserName,
               Changes |-> changes]>>

\* RecordChanges: the history log after the call (an entry is appended only when
\* some field changed).
RecordChanges(log, ti, entityID, entityType, triggerName, before, after) ==
    LET changes == detectChanges(before, after)
    IN IF DOMAIN changes = {} THEN log
       ELSE Append(log, [ID |-> Len(log) + 1,
                         EntityID |-> entityID,
                         EntityType |-> entityType,
                         TenantID |-> IF ti.TenantID # "" THEN ti.TenantID ELSE NilUUID,
                         TriggerName |-> triggerName,
                         TriggerAt |-> ti.ActionAt,
                         TriggerBy |-> ti.UserName,
                         Changes |-> changes])

\* uuid.MustParse(tenantInfo.TenantID) in RecordChanges, reached only with changes.
RecordPanics(ti, before, after) ==
    /\ DOMAIN detectChanges(before, after) # {}
    /\ ti.TenantID # "" /\ ~ParseOK(ti.TenantID)

\* HistoryAuditRepository.Update: [err, out, coll, queries, log, delegated], where
\* delegated tells whether the wrapped store's Update was called.
HAR_Update(c, log, ti, id, entity) ==
    LET before == MAR_GetByID(c, ti, id)
        upd == MAR_Update(c, ti, id, entity)
    IN IF before.err # OK
       THEN [err |-> before.err, out |-> <<entity>>, coll |-> c, queries |-> before.queries,
             log |-> log, delegated |-> FALSE]
       ELSE IF upd.err # OK
       THEN [err |-> upd.err, out |-> <<entity>>, coll |-> upd.coll,
             queries |-> before.queries \o upd.queries, log |-> log, delegated |-> TRUE]
       ELSE IF RecordPanics(ti, before.out[1], upd.out[1])
       THEN [err |-> Panic, out |-> <<>>, coll |-> upd.coll,
             queries |-> before.queries \o upd.queries, log |-> log, delegated |-> TRUE]
       ELSE [err |-> OK, out |-> upd.out, coll |-> upd.coll,
             queries |-> before.queries \o upd.queries,
             log |-> RecordChanges(log, ti, id, "User", "Update", before.out[1], upd.out[1]),
             delegated |-> TRUE]

\* The orders in which a Find without a sort option may yield the entries at the
\* positions idx of the log: every arrangement of them.
Arrangements(log, idx) ==
    {q \in [1..Cardinality(idx) -> idx] : \A a, b \in 1..Cardinality(idx) : a # b => q[a] # q[b]}

\* HistoryManager.GetHistory: the possible results [err, out, queries].
GetHistory(log, ti, entityID) ==
    LET filter == IF ti.TenantID # ""
                  THEN [entity_id |-> entityID, tenant_id |-> ti.TenantID]
                  ELSE [entity_id |-> entityID]
        idx == {n \in 1..Len(log) :
                  /\ log[n].EntityID = filter.entity_id
                  /\ "tenant_id" \in DOMAIN filter => log[n].TenantID = filter.tenant_id}
    IN IF ti.TenantID # "" /\ ~ParseOK(ti.TenantID)
       THEN {[err |-> Panic, out |-> <<>>, queries |-> <<>>]}
       ELSE {[err |-> OK, out |-> [a \in 1..Cardinality(idx) |-> log[q[a]]], queries |-> <<filter>>] :
                q \in Arrangements(log, idx)}

HAR_GetAllSkipTake(c, ti, filters, skip, take) == MAR_GetAllSkipTake(c, ti, filters, skip, take)


----------------------------------------------------------------------------
(* MemoryCache and CachedRepository. *)

KeyPrefix == "zendia:"
typeName == "User"

\* config.TTL in ticks, and config.MaxMemory in the unit of PayloadLen.
TTL == 1
MaxMemory == 14

makeKey(operation, id) == typeName \o ":" \o operation \o ":" \o id
makeTenantKey(operation, tenantID) == typeName \o ":" \o operation \o ":tenant:" \o tenantID

\* json.Marshal of an entity: an object over the json names of its fields; a nil
\* pointer tagged omitempty is left out.
Marshal(e) ==
    IF IsRich(e)
    THEN LET d == [id |-> e.ID, tenant_id |-> e.TenantID, name |-> e.Name, active |-> e.Active,
                   created |-> e.Created, updated |-> e.Updated]
         IN IF e.Deleted = None THEN d
            ELSE [k \in DOMAIN d \cup {"deleted"} |-> IF k = "deleted" THEN e.Deleted[1] ELSE d[k]]
    ELSE LET d == [id |-> e.ID, tenant_id |-> e.TenantID, name |-> e.Name,
                   created_at |-> e.CreatedAt, updated_at |-> e.UpdatedAt,
                   created_by |-> e.CreatedBy, updated_by |-> e.UpdatedBy,
                   deleted_by |-> e.DeletedBy]
         IN IF e.DeletedAt = None THEN d
            ELSE [k \in DOMAIN d \cup {"deleted_at"} |->
                    IF k = "deleted_at" THEN e.DeletedAt[1] ELSE d[k]]

\* A decoding that loses the name.
Unmarshal_Lossy(d) ==
    IF "created" \in DOMAIN d
    THEN RichEntity(d.id, d.tenant_id, "", d.active, d.created, d.updated,
                    IF "deleted" \in DOMAIN d THEN Some(d.deleted) ELSE None)
    ELSE LegacyEntity(d.id, d.tenant_id, "", d.created_at, d.updated_at,
                      d.created_by, d.updated_by,
                      IF "deleted_at" \in DOMAIN d THEN Some(d.deleted_at) ELSE None,
                      d.deleted_by)

\* json.Unmarshal into a zero entity.
Unmarshal(d) ==
    IF "created" \in DOMAIN d
    THEN RichEntity(d.id, d.tenant_id, d.name, d.active, d.created, d.updated,
                    IF "deleted" \in DOMAIN d THEN Some(d.deleted) ELSE None)
    ELSE LegacyEntity(d.id, d.tenant_id, d.name, d.created_at, d.updated_at,
                      d.created_by, d.updated_by,
                      IF "deleted_at" \in DOMAIN d THEN Some(d.deleted_at) ELSE None,
                      d.deleted_by)

\* len(value) of a marshalled payload.
PayloadLen(d) == Cardinality(DOMAIN d)

Without(its, k) == [x \in DOMAIN its \ {k} |-> its[x]]

\* Get with an item still served at the instant of its expiry.
MC_Get_Inclusive(its, key, t) ==
    LET fullKey == KeyPrefix \o key
    IN IF fullKey \in DOMAIN its
       THEN IF t <= its[fullKey].expiresAt
            THEN [found |-> TRUE, data |-> its[fullKey].data, items |-> its]
            ELSE [found |-> FALSE, data |-> <<>>, items |-> Without(its, fullKey)]
       ELSE [found |-> FALSE, data |-> <<>>, items |-> its]

\* MemoryCache.Get: [found, data, items]; an expired item is dropped on the way
\* (the size counter is left as it is).
MC_Get(its, key, t) ==
    LET fullKey == KeyPrefix \o key
    IN IF fullKey \in DOMAIN its
       THEN IF t < its[fullKey].expiresAt
            THEN [found |-> TRUE, data |-> its[fullKey].data, items |-> its]
            ELSE [found |-> FALSE, data |-> <<>>, items |-> Without(its, fullKey)]
       ELSE [found |-> FALSE, data |-> <<>>, items |-> its]

\* An eviction that takes the first item the iteration finds, expired or not.
evictOldest_Any(its, sz, t) ==
    LET expired == DOMAIN its
    IN IF expired = {} THEN {[items |-> its, size |-> sz]}
       ELSE {[items |-> Without(its, k), size |-> sz - PayloadLen(its[k].data)] : k \in expired}

\* evictOldest: the outcomes of removing the first expired item the iteration finds.
evictOldest(its, sz, t) ==
    LET expired == {k \in DOMAIN its : t > its[k].expiresAt}
    IN IF expired = {} THEN {[items |-> its, size |-> sz]}
       ELSE {[items |-> Without(its, k), size |-> sz - PayloadLen(its[k].data)] : k \in expired}

\* MemoryCache.Set: the possible [items, size] afterwards.
MC_Set(its, sz, key, value, ttl, t) ==
    LET fullKey == KeyPrefix \o key
        item == [data |-> value, expiresAt |-> t + (IF ttl = 0 THEN TTL ELSE ttl)]
        before == IF sz + PayloadLen(value) > MaxMemory
                  THEN evictOldest(its, sz, t) ELSE {[items |-> its, size |-> sz]}
    IN {[items |-> With(b.items, fullKey, item), size |-> b.size + PayloadLen(value)] : b \in before}

\* MemoryCache.Delete: [items, size].
MC_Delete(its, sz, key) ==
    LET fullKey == KeyPrefix \o key
    IN IF fullKey \in DOMAIN its
       THEN [items |-> Without(its, fullKey), size |-> sz - PayloadLen(its[fullKey].data)]
       ELSE [items |-> its, size |-> sz]

InvalidateItem_Skipped(its, sz, id) == [items |-> its, size |-> sz]

\* The invalidation after a successful Update or Delete: the item key.
InvalidateItem(its, sz, id) == MC_Delete(its, sz, makeKey("get", id))

InvalidateTenant_Skipped(its, sz, ti) == [items |-> its, size |-> sz]

\* The invalidation of the tenant's list key (when the context has a tenant).
InvalidateTenant(its, sz, ti) ==
    IF ti.TenantID # "" THEN MC_Delete(its, sz, makeTenantKey("list", ti.TenantID))
    ELSE [items |-> its, size |-> sz]

\* The wrapped store of the Cache decorator: results carry both stores.
BaseResult(r, d, c) == [err |-> r.err, out |-> r.out, queries |-> r.queries, data |-> d, coll |-> c]

Base_GetByID(kind, d, c, ti, id) ==
    IF kind = "memory" THEN BaseResult(MEM_GetByID(d, id), d, c)
    ELSE BaseResult(MAR_GetByID(c, ti, id), d, c)

Base_Create(kind, d, c, ti, entity, newID) ==
    IF kind = "memory"
    THEN LET r == MEM_Create(d, entity, newID) IN BaseResult(r, r.data, c)
    ELSE LET r == MAR_Create(c, ti, entity, newID) IN BaseResult(r, d, r.coll)

Base_Update(kind, d, c, ti, id, entity) ==
    IF kind = "memory"
    THEN LET r == MEM_Update(d, id, entity) IN BaseResult(r, r.data, c)
    ELSE LET r == MAR_Update(c, ti, id, entity) IN BaseResult(r, d, r.coll)

Base_Delete(kind, d, c, ti, id) ==
    IF kind = "memory"
    THEN LET r == MEM_Delete(d, id) IN BaseResult(r, r.data, c)
    ELSE LET r == MAR_Delete(c, ti, id) IN BaseResult(r, d, r.coll)


----------------------------------------------------------------------------
(* Observation of a call: which layer and operation, its arguments, and    *)
(* what came back.                                                         *)

Obs(layer, op, tenant, id, filters, res) ==
    [layer |-> layer, op |-> op, tenant |-> tenant, id |-> id, filters |-> filters,
     skip |-> 0, take |-> 0, err |-> res.err, out |-> res.out, queries |-> res.queries,
     hit |-> FALSE, delegated |-> FALSE, entity |-> None, afterWrite |-> "no"]

NoOp == Obs("none", "none", "", NilUUID, <<>>, Result(OK, <<>>, <<>>, <<>>))

----------------------------------------------------------------------------
(* Inputs. *)

\* Caller-supplied filter maps (Go values).
FNone == <<>>
FName == [name |-> Str("Ana")]
FTenant == [tenant_id |-> UUIDV(TenantB)]
FDeleted == [deleted |-> MapV([k \in {"$ne"} |-> NilV])]
FWhere == [k \in {"$where"} |-> Str("true")]
FilterInputs == {FNone, FName, FTenant, FDeleted, FWhere}

\* Payloads of Create: no ID, no tenant, no stamps.
NewEntity(kind, name) ==
    IF kind = "rich" THEN RichEntity(NilUUID, NilUUID, name, FALSE, ZeroInfo, ZeroInfo, None)
    ELSE LegacyEntity(NilUUID, NilUUID, name, 0, 0, "", "", None, "")

\* Payloads of Update(id, e): the entity with a name, carrying the id.
EditedEntity(kind, id, name) == [NewEntity(kind, name) EXCEPT !.ID = id]

\* The Created stamp of a stored entity (None for an entity without the rich hooks).
CreatedStamp(e) == IF IsRich(e) THEN Some(e.Created) ELSE None

FreeIDs(c) == {i \in IDs : c[i] = NoDoc}

----------------------------------------------------------------------------
(* Initial state. *)

InitCommon ==
    /\ now = 1
    /\ coll = [i \in IDs |-> NoDoc]
    /\ data = [i \in IDs |-> NoDoc]
    /\ items = <<>>
    /\ size = 0
    /\ histLog = <<>>
    /\ deletedIds = {}
    /\ dirty = {}
    /\ createdStamp = [i \in IDs |-> None]
    /\ calls = [g \in Goroutines |-> Idle]
    /\ lastSet = [k \in CacheKeys |-> None]
    /\ stats = <<>>
    /\ activeRequests = 0
    /\ lastOp = NoOp

\* The clock advances.
Tick ==
    /\ now < MaxTime
    /\ now' = now + 1
    /\ UNCHANGED <<entityKind, coll, data, items, size, baseKind, histLog, deletedIds, dirty, createdStamp, calls, lastSet, stats, activeRequests, lastOp>>

----------------------------------------------------------------------------
(* Actions of the audited document store. *)

MongoFrame == UNCHANGED <<now, entityKind, data, items, size, baseKind, histLog, dirty, calls, lastSet, stats, activeRequests>>

MongoCreate(t, u, name) ==
    \E newID \in FreeIDs(coll) :
        LET res == MAR_Create(coll, TenantInfo(t, u), NewEntity(entityKind, name), newID)
        IN /\ coll' = res.coll
           /\ lastOp' = Obs("mongoaudit", "Create", t, newID, <<>>, res)
           /\ UNCHANGED deletedIds
           /\ createdStamp' = IF res.err = OK
                              THEN [createdStamp EXCEPT ![newID] = CreatedStamp(res.out[1])]
                              ELSE createdStamp
           /\ MongoFrame

MongoGetByID(t, u, id) ==
    LET res == MAR_GetByID(coll, TenantInfo(t, u), id)
    IN /\ lastOp' = Obs("mongoaudit", "GetByID", t, id, <<>>, res)
       /\ UNCHANGED <<coll, deletedIds>>
       /\ UNCHANGED createdStamp
       /\ MongoFrame

MongoGetFirst(t, u, filters) ==
    \E n \in 1..Cardinality(IDs) :
        LET res == MAR_GetFirst(coll, TenantInfo(t, u), filters, n)
        IN /\ lastOp' = Obs("mongoaudit", "GetFirst", t, NilUUID, filters, res)
           /\ UNCHANGED <<coll, deletedIds>>
           /\ UNCHANGED createdStamp
           /\ MongoFrame

MongoGetAll(t, u, filters) ==
    LET res == MAR_GetAll(coll, TenantInfo(t, u), filters)
    IN /\ lastOp' = Obs("mongoaudit", "GetAll", t, NilUUID, filters, res)
       /\ UNCHANGED <<coll, deletedIds>>
       /\ UNCHANGED createdStamp
       /\ MongoFrame

MongoList(t, u, filters) ==
    LET res == MAR_List(coll, TenantInfo(t, u), filters)
    IN /\ lastOp' = Obs("mongoaudit", "List", t, NilUUID, filters, res)
       /\ UNCHANGED <<coll, deletedIds>>
       /\ UNCHANGED createdStamp
       /\ MongoFrame

MongoGetAllSkipTake(t, u, filters, skip, take) ==
    LET res == MAR_GetAllSkipTake(coll, TenantInfo(t, u), filters, skip, take)
    IN /\ lastOp' = [Obs("mongoaudit", "GetAllSkipTake", t, NilUUID, filters, res)
                        EXCEPT !.skip = skip, !.take = take]
       /\ UNCHANGED <<coll, deletedIds>>
       /\ UNCHANGED createdStamp
       /\ MongoFrame

MongoGetAllIncludingDeleted(t, u, filters) ==
    LET res == MAR_GetAllIncludingDeleted(coll, TenantInfo(t, u), filters)
    IN /\ lastOp' = Obs("mongoaudit", "GetAllIncludingDeleted", t, NilUUID, filters, res)
       /\ UNCHANGED <<coll, deletedIds>>
       /\ UNCHANGED createdStamp
       /\ MongoFrame

MongoGetDeleted(t, u, filters) ==
    LET res == MAR_GetDeleted(coll, TenantInfo(t, u), filters)
    IN /\ lastOp' = Obs("mongoaudit", "GetDeleted", t, NilUUID, filters, res)
       /\ UNCHANGED <<coll, deletedIds>>
       /\ UNCHANGED createdStamp
       /\ MongoFrame

MongoUpdate(t, u, id, name) ==
    LET res == MAR_Update(coll, TenantInfo(t, u), id, EditedEntity(entityKind, id, name))
    IN /\ coll' = res.coll
       /\ lastOp' = Obs("mongoaudit", "Update", t, id, <<>>, res)
       /\ UNCHANGED deletedIds
       /\ UNCHANGED createdStamp
       /\ MongoFrame

MongoDelete(t, u, id) ==
    LET res == MAR_Delete(coll, TenantInfo(t, u), id)
    IN /\ coll' = res.coll
       /\ lastOp' = Obs("mongoaudit", "Delete", t, id, <<>>, res)
       /\ deletedIds' = IF res.err = OK THEN deletedIds \cup {id} ELSE deletedIds
       /\ UNCHANGED createdStamp
       /\ MongoFrame

MongoRestore(t, u, id) ==
    LET res == MAR_Restore(coll, TenantInfo(t, u), id)
    IN /\ coll' = res.coll
       /\ lastOp' = Obs("mongoaudit", "Restore", t, id, <<>>, res)
       /\ deletedIds' = IF res.err = OK THEN deletedIds \ {id} ELSE deletedIds
       /\ UNCHANGED createdStamp
       /\ MongoFrame

MongoHardDelete(t, u, id) ==
    LET res == MAR_HardDelete(coll, TenantInfo(t, u), id)
    IN /\ coll' = res.coll
       /\ lastOp' = Obs("mongoaudit", "HardDelete", t, id, <<>>, res)
       /\ deletedIds' = IF res.err = OK THEN deletedIds \ {id} ELSE deletedIds
       /\ createdStamp' = IF res.err = OK THEN [createdStamp EXCEPT ![id] = None]
                          ELSE createdStamp
       /\ MongoFrame

\* (skip, take) pairs around the limits of the pagination check.
PageInputs == {<<0, 1>>, <<1, 1>>, <<0, 1000>>, <<0, 1001>>, <<-1, 1>>, <<0, -1>>}

\* The audited document store under two tenants, for both kinds of entity:
\* writes, soft and hard deletes, restores, and the reads around them.
StoreTenants == {TenantA, TenantB}

InitMongo == InitCommon /\ entityKind \in {"rich", "legacy"} /\ baseKind = "audit"

NextMongo ==
    \E t \in StoreTenants, u \in CtxUsers :
        \/ \E name \in Names : MongoCreate(t, u, name)
        \/ \E id \in IDs : MongoGetByID(t, u, id)
        \/ MongoGetAll(t, u, FNone)
        \/ MongoList(t, u, FNone)
        \/ MongoGetAllIncludingDeleted(t, u, FNone)
        \/ \E id \in IDs, name \in Names : MongoUpdate(t, u, id, name)
        \/ \E id \in IDs : MongoDelete(t, u, id)
        \/ \E id \in IDs : MongoRestore(t, u, id)
        \/ \E id \in IDs : MongoHardDelete(t, u, id)

SpecMongo == InitMongo /\ [][NextMongo]_vars

\* The audited document store called with a tenant ID that is a UUID and with
\* one that is not.
InitMongoTenants == InitCommon /\ entityKind \in {"rich", "legacy"} /\ baseKind = "audit"

NextMongoTenants ==
    \E t \in {TenantA, TenantB, "t1"}, u \in CtxUsers :
        \/ MongoCreate(TenantA, u, "Ana")
        \/ \E id \in IDs : MongoGetByID(t, u, id)
        \/ MongoGetFirst(t, u, FNone)
        \/ MongoGetAll(t, u, FNone)
        \/ MongoGetAllSkipTake(t, u, FNone, 0, 1)
        \/ \E id \in IDs : MongoUpdate(t, u, id, "Bob")
        \/ \E id \in IDs : MongoDelete(t, u, id)

SpecMongoTenants == InitMongoTenants /\ [][NextMongoTenants]_vars


\* The read paths of the audited document store under every caller-supplied filter.
InitFilter == InitCommon /\ entityKind = "rich" /\ baseKind = "audit"

NextFilter ==
    \E t \in StoreTenants, u \in CtxUsers :
        \/ MongoCreate(t, u, "Ana")
        \/ \E id \in IDs : MongoDelete(t, u, id)
        \/ \E f \in FilterInputs : MongoGetFirst(t, u, f)
        \/ \E f \in FilterInputs : MongoGetAll(t, u, f)
        \/ \E f \in FilterInputs : MongoList(t, u, f)
        \/ \E f \in FilterInputs : MongoGetAllSkipTake(t, u, f, 0, 1)
        \/ \E f \in FilterInputs : MongoGetAllIncludingDeleted(t, u, f)
        \/ \E f \in FilterInputs : MongoGetDeleted(t, u, f)

SpecFilter == InitFilter /\ [][NextFilter]_vars

\* Filter maps at the key limit: 20 keys, 21 keys, and a small map with one
\* bad key.
F20 == [k \in {"f" \o SubSeq("abcdefghijklmnopqrstu", i, i) : i \in 1..MaxFilterKeys} |-> Str("Ana")]
F21 == [k \in {"f" \o SubSeq("abcdefghijklmnopqrstu", i, i) : i \in 1..(MaxFilterKeys + 1)} |-> Str("Ana")]
FMixed == [k \in {"name", "$where"} |-> IF k = "name" THEN Str("Ana") ELSE Str("true")]
LimitInputs == {FName, FMixed, F20, F21}

\* The reads of the audited document store with filter maps at the key limit.
NextFilterLimit ==
    \E t \in StoreTenants, u \in CtxUsers :
        \/ MongoCreate(t, u, "Ana")
        \/ \E f \in LimitInputs : MongoGetFirst(t, u, f)
        \/ \E f \in LimitInputs : MongoGetAll(t, u, f)
        \/ \E f \in LimitInputs : MongoList(t, u, f)
        \/ \E f \in LimitInputs : MongoGetAllSkipTake(t, u, f, 0, 1)
        \/ \E f \in LimitInputs : MongoGetAllIncludingDeleted(t, u, f)
        \/ \E f \in LimitInputs : MongoGetDeleted(t, u, f)

SpecFilterLimit == InitFilter /\ [][NextFilterLimit]_vars


----------------------------------------------------------------------------
(* Actions of the in-memory store and of the generic audit decorator.      *)

MemFrame == UNCHANGED <<now, entityKind, coll, items, size, baseKind, histLog, dirty, calls, lastSet, stats, activeRequests>>

Orders == {<<"id1", "id2">>, <<"id2", "id1">>}

AuditCreate(t, u, name) ==
    \E newID \in FreeIDs(data) :
        LET res == AR_Create(data, TenantInfo(t, u), NewEntity(entityKind, name), newID)
        IN /\ data' = res.data
           /\ lastOp' = Obs("audit", "Create", t, newID, <<>>, res)
           /\ UNCHANGED deletedIds
           /\ createdStamp' = IF res.err = OK
                              THEN [createdStamp EXCEPT ![newID] = CreatedStamp(res.out[1])]
                              ELSE createdStamp
           /\ MemFrame

AuditGetByID(t, u, id) ==
    LET res == AR_GetByID(data, TenantInfo(t, u), id)
    IN /\ lastOp' = Obs("audit", "GetByID", t, id, <<>>, res)
       /\ UNCHANGED <<data, deletedIds>>
       /\ UNCHANGED createdStamp
       /\ MemFrame

AuditUpdate(t, u, id, name) ==
    LET res == AR_Update(data, TenantInfo(t, u), id, EditedEntity(entityKind, id, name))
    IN /\ data' = res.data
       /\ lastOp' = Obs("audit", "Update", t, id, <<>>, res)
       /\ UNCHANGED deletedIds
       /\ UNCHANGED createdStamp
       /\ MemFrame

AuditDelete(t, u, id) ==
    LET res == AR_Delete(data, TenantInfo(t, u), id)
    IN /\ data' = res.data
       /\ lastOp' = Obs("audit", "Delete", t, id, <<>>, res)
       /\ deletedIds' = IF res.err = OK THEN deletedIds \cup {id} ELSE deletedIds
       /\ createdStamp' = IF res.err = OK THEN [createdStamp EXCEPT ![id] = None]
                          ELSE createdStamp
       /\ MemFrame

AuditGetAll(t, u, filters) ==
    \E order \in Orders :
        LET res == AR_GetAll(data, TenantInfo(t, u), order, filters)
        IN /\ lastOp' = Obs("audit", "GetAll", t, NilUUID, filters, res)
           /\ UNCHANGED <<data, deletedIds>>
           /\ UNCHANGED createdStamp
           /\ MemFrame

AuditGetAllSkipTake(t, u, filters, skip, take) ==
    \E order \in Orders :
        LET res == AR_GetAllSkipTake(data, TenantInfo(t, u), order, filters, skip, take)
        IN /\ lastOp' = [Obs("audit", "GetAllSkipTake", t, NilUUID, filters, res)
                            EXCEPT !.skip = skip, !.take = take]
           /\ UNCHANGED <<data, deletedIds>>
           /\ UNCHANGED createdStamp
           /\ MemFrame

MemGetAllSkipTake(filters, skip, take) ==
    \E order \in Orders :
        LET res == MEM_GetAllSkipTake(data, order, filters, skip, take)
        IN /\ lastOp' = [Obs("memory", "GetAllSkipTake", "", NilUUID, filters, res)
                            EXCEPT !.skip = skip, !.take = take]
           /\ UNCHANGED <<data, deletedIds>>
           /\ UNCHANGED createdStamp
           /\ MemFrame

\* Update with the stored entity, renamed, as payload (read, modify, write back).
AuditModify(t, u, id, name) ==
    /\ data[id] # NoDoc
    /\ LET res == AR_Update(data, TenantInfo(t, u), id, [data[id] EXCEPT !.Name = name])
       IN /\ data' = res.data
          /\ lastOp' = Obs("audit", "Update", t, id, <<>>, res)
          /\ UNCHANGED <<deletedIds, createdStamp>>
          /\ MemFrame

\* The generic audit decorator over the in-memory store.
InitAudit == InitCommon /\ entityKind \in {"rich", "legacy"} /\ baseKind = "memory"

NextAudit ==
    \E t \in StoreTenants, u \in CtxUsers :
        \/ \E name \in Names : AuditCreate(t, u, name)
        \/ \E id \in IDs : AuditGetByID(t, u, id)
        \/ \E id \in IDs, name \in Names : AuditUpdate(t, u, id, name)
        \/ \E id \in IDs : AuditDelete(t, u, id)
        \/ \E f \in {FNone, FName} : AuditGetAll(t, u, f)

SpecAudit == InitAudit /\ [][NextAudit]_vars

\* The four filtered reads of the generic audit decorator.
AuditRead(t, u, filters) ==
    \E order \in Orders, op \in {"GetFirst", "GetAll", "GetAllSkipTake", "List"} :
        LET ti == TenantInfo(t, u)
            res == CASE op = "GetFirst" -> AR_GetFirst(data, ti, order, filters)
                     [] op = "GetAll" -> AR_GetAll(data, ti, order, filters)
                     [] op = "GetAllSkipTake" -> AR_GetAllSkipTake(data, ti, order, filters, 0, 1)
                     [] op = "List" -> AR_List(data, ti, order, filters)
        IN /\ lastOp' = [Obs("audit", op, t, NilUUID, filters, res)
                            EXCEPT !.take = IF op = "GetAllSkipTake" THEN 1 ELSE 0]
           /\ UNCHANGED <<data, deletedIds, createdStamp>>
           /\ MemFrame

\* Reads under every tenant value of the context, the empty one included, with
\* no filters, a plain filter and a caller-supplied tenant_id.
InitAuditReads == InitCommon /\ entityKind = "rich" /\ baseKind = "memory"

NextAuditReads ==
    \E u \in CtxUsers :
        \/ \E t \in StoreTenants, name \in Names : AuditCreate(t, u, name)
        \/ \E t \in {"", TenantA, TenantB}, f \in {FNone, FName, FTenant} : AuditRead(t, u, f)

SpecAuditReads == InitAuditReads /\ [][NextAuditReads]_vars

\* The generic audit decorator with the clock: stamps of different instants.
NextAuditTime ==
    \/ Tick
    \/ \E u \in CtxUsers :
          \/ AuditCreate(TenantA, u, "Ana")
          \/ \E id \in IDs : AuditUpdate(TenantA, u, id, "Bob")
          \/ \E id \in IDs : AuditModify(TenantA, u, id, "Bob")
          \/ \E id \in IDs : AuditDelete(TenantA, u, id)

SpecAuditTime == InitAudit /\ [][NextAuditTime]_vars

----------------------------------------------------------------------------
(* Pagination through every store. *)

PlainGetAllSkipTake(filters, skip, take) ==
    LET res == MR_GetAllSkipTake(coll, filters, skip, take)
    IN /\ lastOp' = [Obs("mongo", "GetAllSkipTake", "", NilUUID, filters, res)
                        EXCEPT !.skip = skip, !.take = take]
       /\ UNCHANGED <<coll, deletedIds>>
       /\ UNCHANGED createdStamp
       /\ MongoFrame

HistoryGetAllSkipTake(t, u, filters, skip, take) ==
    LET res == HAR_GetAllSkipTake(coll, TenantInfo(t, u), filters, skip, take)
    IN /\ lastOp' = [Obs("history", "GetAllSkipTake", t, NilUUID, filters, res)
                        EXCEPT !.skip = skip, !.take = take]
       /\ UNCHANGED <<coll, deletedIds>>
       /\ UNCHANGED createdStamp
       /\ MongoFrame

InitPage == InitCommon /\ entityKind = "rich" /\ baseKind = "memory"

NextPage ==
    \/ MongoCreate(TenantA, "user1", "Ana")
    \/ AuditCreate(TenantA, "user1", "Ana")
    \/ \E p \in PageInputs :
          \/ MemGetAllSkipTake(FNone, p[1], p[2])
          \/ AuditGetAllSkipTake(TenantA, "user1", FNone, p[1], p[2])
          \/ PlainGetAllSkipTake(FNone, p[1], p[2])
          \/ MongoGetAllSkipTake(TenantA, "user1", FNone, p[1], p[2])
          \/ HistoryGetAllSkipTake(TenantA, "user1", FNone, p[1], p[2])

SpecPage == InitPage /\ [][NextPage]_vars


----------------------------------------------------------------------------
(* Actions of the Cache decorator, of the cache's sweeper and of the clock. *)

CacheFrame == UNCHANGED <<now, entityKind, baseKind, histLog, calls, lastSet, stats, activeRequests>>

DirtyIds == {p[1] : p \in dirty}

\* Whether the cache holds an entry under the item key of id.
HasEntry(id) == (KeyPrefix \o makeKey("get", id)) \in DOMAIN items

MarkDirty(id) ==
    {p \in dirty : p[1] # id} \cup {<<id, HasEntry(id) \/ <<id, TRUE>> \in dirty>>}

WrittenSince(id) ==
    IF <<id, TRUE>> \in dirty THEN "invalidated"
    ELSE IF <<id, FALSE>> \in dirty THEN "written" ELSE "no"

\* The same bookkeeping for the list entry of a tenant: the mark is kept from a
\* write that found the tenant's list cached until the tenant's next GetAll.
ListMark(t) == "list:" \o t
HasListEntry(t) == (KeyPrefix \o makeTenantKey("list", t)) \in DOMAIN items
MarkList(d, t) == IF t # "" /\ HasListEntry(t) THEN d \cup {<<ListMark(t), TRUE>>} ELSE d

\* A sweep that only runs while the estimate is over the budget.
CleanupStep_UnderPressure ==
    \E k \in DOMAIN items :
        /\ size > MaxMemory
        /\ now > items[k].expiresAt
        /\ items' = Without(items, k)
        /\ size' = size - PayloadLen(items[k].data)
        /\ UNCHANGED <<now, entityKind, coll, data, baseKind, histLog, deletedIds, dirty, createdStamp, calls, lastSet, stats, activeRequests, lastOp>>

\* One iteration of the cleanup loop that finds an expired item.
CleanupStep ==
    \E k \in DOMAIN items :
        /\ now > items[k].expiresAt
        /\ items' = Without(items, k)
        /\ size' = size - PayloadLen(items[k].data)
        /\ UNCHANGED <<now, entityKind, coll, data, baseKind, histLog, deletedIds, dirty, createdStamp, calls, lastSet, stats, activeRequests, lastOp>>

CachedCreate(t, u, name) ==
    \E newID \in FreeIDs(IF baseKind = "memory" THEN data ELSE coll) :
        LET ti == TenantInfo(t, u)
            res == Base_Create(baseKind, data, coll, ti, NewEntity(entityKind, name), newID)
            inv == InvalidateTenant(items, size, ti)
        IN /\ data' = res.data
           /\ coll' = res.coll
           /\ IF res.err = OK THEN items' = inv.items /\ size' = inv.size
              ELSE UNCHANGED <<items, size>>
           /\ lastOp' = Obs("cache", "Create", t, newID, <<>>, res)
           /\ dirty' = IF res.err = OK THEN MarkList(dirty, t) ELSE dirty
           /\ UNCHANGED deletedIds
           /\ createdStamp' = IF res.err = OK
                              THEN [createdStamp EXCEPT ![newID] = CreatedStamp(res.out[1])]
                              ELSE createdStamp
           /\ CacheFrame

CachedGetByID(t, u, id) ==
    LET ti == TenantInfo(t, u)
        got == MC_Get(items, makeKey("get", id), now)
        res == Base_GetByID(baseKind, data, coll, ti, id)
    IN /\ IF got.found
          THEN /\ lastOp' = [Obs("cache", "GetByID", t, id, <<>>,
                                 Result(OK, <<Unmarshal(got.data)>>, coll, <<>>))
                               EXCEPT !.hit = TRUE, !.afterWrite = WrittenSince(id)]
               /\ UNCHANGED <<items, size>>
          ELSE /\ lastOp' = [Obs("cache", "GetByID", t, id, <<>>, res)
                               EXCEPT !.afterWrite = WrittenSince(id), !.delegated = TRUE]
               /\ IF res.err # OK
                  THEN items' = got.items /\ UNCHANGED size
                  ELSE \E s \in MC_Set(got.items, size, makeKey("get", id),
                                       Marshal(res.out[1]), TTL, now) :
                          items' = s.items /\ size' = s.size
       /\ dirty' = {p \in dirty : p[1] # id}
       /\ UNCHANGED <<data, coll, deletedIds>>
       /\ UNCHANGED createdStamp
       /\ CacheFrame

CachedUpdate(t, u, id, name) ==
    LET ti == TenantInfo(t, u)
        res == Base_Update(baseKind, data, coll, ti, id, EditedEntity(entityKind, id, name))
        inv1 == InvalidateItem(items, size, id)
        inv2 == InvalidateTenant(inv1.items, inv1.size, ti)
    IN /\ data' = res.data
       /\ coll' = res.coll
       /\ IF res.err = OK THEN items' = inv2.items /\ size' = inv2.size
          ELSE UNCHANGED <<items, size>>
       /\ lastOp' = Obs("cache", "Update", t, id, <<>>, res)
       /\ dirty' = IF res.err = OK THEN MarkList(MarkDirty(id), t) ELSE dirty
       /\ UNCHANGED deletedIds
       /\ UNCHANGED createdStamp
       /\ CacheFrame

CachedDelete(t, u, id) ==
    LET ti == TenantInfo(t, u)
        res == Base_Delete(baseKind, data, coll, ti, id)
        inv1 == InvalidateItem(items, size, id)
        inv2 == InvalidateTenant(inv1.items, inv1.size, ti)
    IN /\ data' = res.data
       /\ coll' = res.coll
       /\ IF res.err = OK THEN items' = inv2.items /\ size' = inv2.size
          ELSE UNCHANGED <<items, size>>
       /\ lastOp' = Obs("cache", "Delete", t, id, <<>>, res)
       /\ dirty' = IF res.err = OK THEN MarkList(MarkDirty(id), t) ELSE dirty
       /\ deletedIds' = IF res.err = OK THEN deletedIds \cup {id} ELSE deletedIds
       /\ createdStamp' = IF res.err = OK /\ baseKind = "memory"
                          THEN [createdStamp EXCEPT ![id] = None] ELSE createdStamp
       /\ CacheFrame

\* json.Marshal and json.Unmarshal of a slice of entities.
MarshalList(list) == [n \in 1..Len(list) |-> Marshal(list[n])]
UnmarshalList(d) == [n \in 1..Len(d) |-> Unmarshal(d[n])]

Base_GetAll(kind, d, c, ti, order, filters) ==
    IF kind = "memory" THEN BaseResult(MEM_GetAll(d, order, filters), d, c)
    ELSE BaseResult(MAR_GetAll(c, ti, filters), d, c)

\* CachedRepository.GetAll (List is the same call): without a tenant in the
\* context the wrapped store is asked; otherwise the tenant's list entry is
\* served, or filled from the wrapped store.
CachedGetAll(t, u, filters) ==
    \E order \in Orders :
        LET ti == TenantInfo(t, u)
            key == makeTenantKey("list", t)
            got == MC_Get(items, key, now)
            res == Base_GetAll(baseKind, data, coll, ti, order, filters)
            mark == IF <<ListMark(t), TRUE>> \in dirty THEN "invalidated" ELSE "no"
        IN /\ IF t = ""
              THEN /\ lastOp' = [Obs("cache", "GetAll", t, NilUUID, filters, res)
                                    EXCEPT !.delegated = TRUE]
                   /\ UNCHANGED <<items, size>>
              ELSE IF got.found
              THEN /\ lastOp' = [Obs("cache", "GetAll", t, NilUUID, filters,
                                     Result(OK, UnmarshalList(got.data), coll, <<>>))
                                    EXCEPT !.hit = TRUE, !.afterWrite = mark]
                   /\ UNCHANGED <<items, size>>
              ELSE /\ lastOp' = [Obs("cache", "GetAll", t, NilUUID, filters, res)
                                    EXCEPT !.delegated = TRUE, !.afterWrite = mark]
                   /\ IF res.err # OK
                      THEN items' = got.items /\ UNCHANGED size
                      ELSE \E s \in MC_Set(got.items, size, key, MarshalList(res.out), TTL, now) :
                              items' = s.items /\ size' = s.size
           /\ dirty' = {p \in dirty : p[1] # ListMark(t)}
           /\ UNCHANGED <<data, coll, deletedIds, createdStamp>>
           /\ CacheFrame

\* The Cache decorator over the in-memory store, with the clock and the sweeper.
InitCache == InitCommon /\ entityKind \in {"rich", "legacy"} /\ baseKind = "memory"

NextCache ==
    \/ Tick
    \/ CleanupStep
    \/ \E u \in CtxUsers :
          \/ CachedCreate(TenantA, u, "Ana")
          \/ \E id \in IDs : CachedGetByID(TenantA, u, id)
          \/ \E id \in IDs, name \in Names : CachedUpdate(TenantA, u, id, name)
          \/ \E id \in IDs : CachedDelete(TenantA, u, id)

SpecCache == InitCache /\ [][NextCache]_vars

\* The Cache decorator with its list entries, for two tenants.
InitCacheList == InitCommon /\ entityKind = "rich" /\ baseKind = "memory"

NextCacheList ==
    \E t \in StoreTenants, u \in CtxUsers :
        \/ CachedCreate(t, u, "Ana")
        \/ \E id \in IDs : CachedUpdate(t, u, id, "Bob")
        \/ \E id \in IDs : CachedDelete(t, u, id)
        \/ \E f \in {FNone, FName} : CachedGetAll(t, u, f)

SpecCacheList == InitCacheList /\ [][NextCacheList]_vars

\* The list entries of the Cache decorator over the audited document store,
\* which applies the caller's filters.
InitCacheListAudit == InitCommon /\ entityKind = "rich" /\ baseKind = "audit"

NextCacheListAudit ==
    \E u \in CtxUsers :
        \/ \E t \in StoreTenants, name \in Names : CachedCreate(t, u, name)
        \/ \E id \in IDs : CachedDelete(TenantA, u, id)
        \/ \E t \in StoreTenants, f \in {FNone, FName} : CachedGetAll(t, u, f)

SpecCacheListAudit == InitCacheListAudit /\ [][NextCacheListAudit]_vars

\* The Cache decorator over the audited document store, called by two tenants.
InitCacheAudit == InitCommon /\ entityKind = "rich" /\ baseKind = "audit"

NextCacheAudit ==
    \E t \in StoreTenants, u \in CtxUsers :
        \/ CachedCreate(t, u, "Ana")
        \/ \E id \in IDs : CachedGetByID(t, u, id)
        \/ \E id \in IDs : MongoGetByID(t, u, id)
        \/ \E id \in IDs, name \in Names : CachedUpdate(t, u, id, name)
        \/ \E id \in IDs : CachedDelete(t, u, id)

SpecCacheAudit == InitCacheAudit /\ [][NextCacheAudit]_vars

----------------------------------------------------------------------------
(* Actions of the History decorator. *)

\* Payloads of Update through the History decorator: a name, and for entities
\* with the rich hooks a Deleted stamp or none.
HistoryPayloads(id) ==
    IF entityKind = "rich"
    THEN {[EditedEntity("rich", id, name) EXCEPT !.Deleted = del] :
            name \in Names, del \in {None, Some(AuditInfo(1, "user1", FALSE))}}
    ELSE {EditedEntity("legacy", id, name) : name \in Names}

HistoryUpdate(t, u, id) ==
    \E entity \in HistoryPayloads(id) :
        LET res == HAR_Update(coll, histLog, TenantInfo(t, u), id, entity)
        IN /\ Len(histLog) < MaxHist
           /\ coll' = res.coll
           /\ histLog' = res.log
           /\ lastOp' = [Obs("history", "Update", t, id, <<>>, res)
                            EXCEPT !.delegated = res.delegated, !.entity = Some(entity)]
           /\ UNCHANGED <<deletedIds, now, entityKind, data, items, size, baseKind, dirty, createdStamp, calls, lastSet, stats, activeRequests>>

HistoryGetHistory(t, u, id) ==
    \E res \in GetHistory(histLog, TenantInfo(t, u), id) :
        /\ lastOp' = Obs("history", "GetHistory", t, id, <<>>, res)
        /\ UNCHANGED <<coll, histLog, deletedIds>>
        /\ UNCHANGED createdStamp
        /\ MongoFrame

InitHistory == InitCommon /\ entityKind \in {"rich", "legacy"} /\ baseKind = "audit"

NextHistory ==
    \E u \in CtxUsers :
        \/ MongoCreate(TenantA, u, "Ana")
        \/ \E id \in IDs : MongoDelete(TenantA, u, id)
        \/ \E t \in StoreTenants, id \in IDs : HistoryUpdate(t, u, id)

SpecHistory == InitHistory /\ [][NextHistory]_vars

\* The History decorator with its log queries and the clock.
NextHistoryLog ==
    \/ Tick
    \/ \E u \in CtxUsers :
          \/ MongoCreate(TenantA, u, "Ana")
          \/ \E id \in IDs : HistoryUpdate(TenantA, u, id)
          \/ \E t \in StoreTenants, id \in IDs : HistoryGetHistory(t, u, id)

SpecHistoryLog == InitHistory /\ [][NextHistoryLog]_vars

\* What Update does with the error RecordChanges returned.
HAR_AfterRecord_Propagating(res, recordErr) ==
    IF recordErr # OK THEN [res EXCEPT !.err = recordErr, !.out = <<>>] ELSE res

\* Update discards the error RecordChanges returned.
HAR_AfterRecord(res, recordErr) == res

\* HistoryAuditRepository.Update with a history collection whose InsertOne
\* may fail: the entry is then not stored and RecordChanges returns the error.
HistoryUpdateFaulty(t, u, id) ==
    \E entity \in HistoryPayloads(id), insertErr \in {OK, Internal} :
        LET res == HAR_Update(coll, histLog, TenantInfo(t, u), id, entity)
            inserting == res.err = OK /\ res.log # histLog
            recordErr == IF inserting THEN insertErr ELSE OK
            ret == HAR_AfterRecord(res, recordErr)
        IN /\ Len(histLog) < MaxHist
           /\ coll' = res.coll
           /\ histLog' = IF recordErr = OK THEN res.log ELSE histLog
           /\ lastOp' = [Obs("faultyhistory", "Update", t, id, <<>>, ret)
                            EXCEPT !.delegated = res.delegated, !.entity = Some(entity),
                                   !.afterWrite = IF recordErr = OK THEN "ok" ELSE "fail"]
           /\ UNCHANGED <<deletedIds, now, entityKind, data, items, size, baseKind, dirty,
                          createdStamp, calls, lastSet, stats, activeRequests>>

InitFaultyHistory == InitCommon /\ entityKind = "rich" /\ baseKind = "audit"

NextFaultyHistory ==
    \E u \in CtxUsers :
        \/ MongoCreate(TenantA, u, "Ana")
        \/ \E t \in CtxTenants, id \in IDs : HistoryUpdateFaulty(t, u, id)

SpecFaultyHistory == InitFaultyHistory /\ [][NextFaultyHistory]_vars

\* Every operation of the History decorator: Create, Delete and the reads are
\* the wrapped store's.
NextHistoryAll ==
    \E u \in CtxUsers :
        \/ MongoCreate(TenantA, u, "Ana")
        \/ \E id \in IDs : MongoDelete(TenantA, u, id)
        \/ \E id \in IDs : MongoGetByID(TenantA, u, id)
        \/ \E t \in StoreTenants, id \in IDs : HistoryUpdate(t, u, id)
        \/ \E id \in IDs : HistoryGetHistory(TenantA, u, id)

SpecHistoryAll == InitHistory /\ [][NextHistoryAll]_vars


----------------------------------------------------------------------------
(* One MemoryRepository and one MemoryCache shared by concurrent callers.  *)
(* A call is entered, and each access it makes to the shared structure is  *)
(* in progress until the step that completes it.  MemoryRepository takes   *)
(* no lock around its map; MemoryCache takes mc.mutex in Set and Clear     *)
(* only, and its items are a sync.Map whose own operations are atomic.     *)

\* The Go runtime's "fatal error: concurrent map ..." on a detected race.
Fatal == "fatal"

\* Set is not called once mc.size has passed MaxCached (the counter only grows
\* under repeated Set of one key).
MaxCached == 12

Call(op, pc, target, mode, id, name, locked) ==
    [op |-> op, pc |-> pc, target |-> target, mode |-> mode, id |-> id, name |-> name,
     locked |-> locked]

\* Two accesses in progress on the same structure, at least one a plain write,
\* and not both under mc.mutex.
Conflicts(a, b) ==
    /\ a.target # "none" /\ a.target = b.target
    /\ a.mode = "write" \/ b.mode = "write"
    /\ ~(a.locked /\ b.locked)

Racing(g) == \E h \in Goroutines \ {g} : Conflicts(calls[g], calls[h])

\* mc.mutex is free for g to take.
MutexFree(g) == \A h \in Goroutines \ {g} : ~calls[h].locked

\* MemoryCache.Clear: [items, size].
MC_Clear(its, sz) == [items |-> <<>>, size |-> 0]

ConcFrame == UNCHANGED <<now, entityKind, coll, baseKind, histLog, deletedIds, dirty, createdStamp, lastSet, stats, activeRequests>>

Running(g) == calls[g] = Idle /\ lastOp.err # Fatal

\* MemoryRepository.Create up to its map write: nextID() has yielded a fresh id.
RepoCreateEnter(g, name) ==
    /\ Running(g)
    /\ \E id \in FreeIDs(data) \ {calls[h].id : h \in Goroutines} :
          calls' = [calls EXCEPT ![g] = Call("Create", "write", "data", "write", id, name, FALSE)]
    /\ UNCHANGED <<data, items, size, lastOp>>
    /\ ConcFrame

\* MemoryRepository.GetByID up to its map read.
RepoGetByIDEnter(g, id) ==
    /\ Running(g)
    /\ calls' = [calls EXCEPT ![g] = Call("GetByID", "read", "data", "read", id, "", FALSE)]
    /\ UNCHANGED <<data, items, size, lastOp>>
    /\ ConcFrame

\* MemoryRepository.Update up to the map read of its existence check.
RepoUpdateEnter(g, id, name) ==
    /\ Running(g)
    /\ calls' = [calls EXCEPT ![g] = Call("Update", "check", "data", "read", id, name, FALSE)]
    /\ UNCHANGED <<data, items, size, lastOp>>
    /\ ConcFrame

\* MemoryRepository.Delete up to the map read of its existence check.
RepoDeleteEnter(g, id) ==
    /\ Running(g)
    /\ calls' = [calls EXCEPT ![g] = Call("Delete", "check", "data", "read", id, "", FALSE)]
    /\ UNCHANGED <<data, items, size, lastOp>>
    /\ ConcFrame

\* The map access of g's repository call completes.  An access that races with
\* another may instead be caught by the runtime, which ends the process.
RepoStep(g) ==
    LET c == calls[g]
        returns(res) == /\ lastOp' = Obs("memory", c.op, "", c.id, <<>>, res)
                        /\ data' = res.data
                        /\ calls' = [calls EXCEPT ![g] = Idle]
    IN /\ c.target = "data" /\ lastOp.err # Fatal
       /\ \E outcome \in (IF Racing(g) THEN {"done", Fatal} ELSE {"done"}) :
             IF outcome = Fatal
             THEN /\ lastOp' = Obs("memory", c.op, "", c.id, <<>>, MemResult(Fatal, <<>>, data))
                  /\ UNCHANGED <<data, calls>>
             ELSE CASE c.op = "Create" ->
                          returns(MEM_Create(data, NewEntity(entityKind, c.name), c.id))
                    [] c.op = "GetByID" -> returns(MEM_GetByID(data, c.id))
                    [] c.op \in {"Update", "Delete"} /\ c.pc = "check" ->
                          IF data[c.id] = NoDoc
                          THEN returns(MemResult(NotFound, <<>>, data))
                          ELSE /\ calls' = [calls EXCEPT ![g] = [c EXCEPT !.pc = "write",
                                                                          !.mode = "write"]]
                               /\ UNCHANGED <<data, lastOp>>
                    [] c.op = "Update" /\ c.pc = "write" ->
                          LET e == EditedEntity(entityKind, c.id, c.name)
                          IN returns(MemResult(OK, <<e>>, [data EXCEPT ![c.id] = e]))
                    [] c.op = "Delete" /\ c.pc = "write" ->
                          returns(MemResult(OK, <<>>, [data EXCEPT ![c.id] = NoDoc]))
       /\ UNCHANGED <<items, size>>
       /\ ConcFrame

\* MemoryCache.Get up to mc.items.Load (no lock is taken).
MemCacheGetEnter(g, key) ==
    /\ Running(g)
    /\ calls' = [calls EXCEPT ![g] = Call("Get", "load", "items", "atomic", key, "", FALSE)]
    /\ UNCHANGED <<data, items, size, lastOp>>
    /\ ConcFrame

\* MemoryCache.Set up to mc.items.Store, mc.mutex taken.
MemCacheSetEnter(g, key, name) ==
    /\ Running(g) /\ MutexFree(g)
    /\ size <= MaxCached
    /\ calls' = [calls EXCEPT ![g] = Call("Set", "store", "items", "atomic", key, name, TRUE)]
    /\ UNCHANGED <<data, items, size, lastOp>>
    /\ ConcFrame

\* MemoryCache.Delete up to mc.items.LoadAndDelete (no lock is taken yet).
MemCacheDeleteEnter(g, key) ==
    /\ Running(g)
    /\ calls' = [calls EXCEPT ![g] = Call("Delete", "load", "items", "atomic", key, "", FALSE)]
    /\ UNCHANGED <<data, items, size, lastOp>>
    /\ ConcFrame

\* MemoryCache.Clear up to the assignment mc.items = sync.Map{}, mc.mutex taken.
MemCacheClearEnter(g) ==
    /\ Running(g) /\ MutexFree(g)
    /\ calls' = [calls EXCEPT ![g] = Call("Clear", "assign", "items", "write", "", "", TRUE)]
    /\ UNCHANGED <<data, items, size, lastOp>>
    /\ ConcFrame

\* g's cache call completes.  A Get that races with Clear's assignment works on
\* the map from before the assignment or on the fresh one.
MemCacheStep(g) ==
    LET c == calls[g]
        obs(found, out) == [Obs("memcache", c.op, "", c.id, <<>>, Result(OK, out, <<>>, <<>>))
                               EXCEPT !.hit = found]
    IN /\ c.target = "items" /\ lastOp.err # Fatal
       /\ CASE c.op = "Get" ->
                 \E fresh \in (IF Racing(g) THEN {FALSE, TRUE} ELSE {FALSE}) :
                    LET r == MC_Get(IF fresh THEN <<>> ELSE items, c.id, now)
                    IN /\ lastOp' = obs(r.found, IF r.found THEN <<r.data>> ELSE <<>>)
                       /\ items' = IF fresh THEN items ELSE r.items
                       /\ size' = size
            [] c.op = "Set" ->
                 \E r \in MC_Set(items, size, c.id, Marshal(NewEntity(entityKind, c.name)), 0, now) :
                    /\ items' = r.items /\ size' = r.size
                    /\ lastOp' = obs(FALSE, <<>>)
            [] c.op = "Delete" ->
                 /\ (KeyPrefix \o c.id) \in DOMAIN items => MutexFree(g)
                 /\ LET r == MC_Delete(items, size, c.id)
                    IN items' = r.items /\ size' = r.size
                 /\ lastOp' = obs(FALSE, <<>>)
            [] c.op = "Clear" ->
                 /\ LET r == MC_Clear(items, size)
                    IN items' = r.items /\ size' = r.size
                 /\ lastOp' = obs(FALSE, <<>>)
       /\ calls' = [calls EXCEPT ![g] = Idle]
       /\ UNCHANGED data
       /\ ConcFrame

InitShared == InitCommon /\ entityKind = "rich" /\ baseKind = "memory"

\* Two goroutines calling one MemoryRepository.
NextSharedRepo ==
    \E g \in Goroutines :
        \/ RepoCreateEnter(g, "Ana")
        \/ \E id \in IDs : RepoGetByIDEnter(g, id)
        \/ \E id \in IDs : RepoUpdateEnter(g, id, "Bob")
        \/ \E id \in IDs : RepoDeleteEnter(g, id)
        \/ RepoStep(g)

SpecSharedRepo == InitShared /\ [][NextSharedRepo]_vars

\* Two goroutines calling one MemoryCache.
NextSharedCache ==
    \E g \in Goroutines :
        \/ \E key \in CacheKeys : MemCacheGetEnter(g, key)
        \/ \E key \in CacheKeys : MemCacheSetEnter(g, key, "Ana")
        \/ \E key \in CacheKeys : MemCacheDeleteEnter(g, key)
        \/ MemCacheClearEnter(g)
        \/ MemCacheStep(g)

SpecSharedCache == InitShared /\ [][NextSharedCache]_vars


----------------------------------------------------------------------------
(* The MemoryCache called directly, one call at a time, with the clock and *)
(* the sweeper.                                                            *)

\* ttl arguments of Set: 0 asks for config.TTL.
TTLInputs == {0, 2}

MemCacheFrame ==
    UNCHANGED <<now, entityKind, coll, data, baseKind, histLog, deletedIds, dirty, createdStamp, calls, stats, activeRequests>>

MemCacheObs(op, key, found, out) ==
    [Obs("memcache", op, "", key, <<>>, Result(OK, out, <<>>, <<>>)) EXCEPT !.hit = found]

MemCacheSet(key, name, ttl) ==
    LET value == Marshal(NewEntity(entityKind, name))
    IN /\ size <= MaxCached
       /\ \E r \in MC_Set(items, size, key, value, ttl, now) :
             items' = r.items /\ size' = r.size
       /\ lastSet' = [lastSet EXCEPT ![key] =
                         Some([value |-> value, at |-> now,
                               expiresAt |-> now + (IF ttl = 0 THEN TTL ELSE ttl)])]
       /\ lastOp' = [MemCacheObs("Set", key, FALSE, <<>>)
                       EXCEPT !.afterWrite = IF DOMAIN items \subseteq DOMAIN items'
                                             THEN "no" ELSE "evicted"]
       /\ MemCacheFrame

MemCacheGet(key) ==
    LET r == MC_Get(items, key, now)
    IN /\ items' = r.items
       /\ lastOp' = MemCacheObs("Get", key, r.found, IF r.found THEN <<r.data>> ELSE <<>>)
       /\ UNCHANGED <<size, lastSet>>
       /\ MemCacheFrame

MemCacheDelete(key) ==
    LET r == MC_Delete(items, size, key)
    IN /\ items' = r.items /\ size' = r.size
       /\ lastSet' = [lastSet EXCEPT ![key] = None]
       /\ lastOp' = MemCacheObs("Delete", key, FALSE, <<>>)
       /\ MemCacheFrame

MemCacheClear ==
    LET r == MC_Clear(items, size)
    IN /\ items' = r.items /\ size' = r.size
       /\ lastSet' = [k \in CacheKeys |-> None]
       /\ lastOp' = MemCacheObs("Clear", "", FALSE, <<>>)
       /\ MemCacheFrame

InitMemCache == InitCommon /\ entityKind = "rich" /\ baseKind = "memory"

NextMemCache ==
    \/ Tick
    \/ CleanupStep
    \/ \E key \in CacheKeys, name \in Names, ttl \in TTLInputs : MemCacheSet(key, name, ttl)
    \/ \E key \in CacheKeys : MemCacheGet(key)
    \/ \E key \in CacheKeys : MemCacheDelete(key)
    \/ MemCacheClear

SpecMemCache == InitMemCache /\ [][NextMemCache]_vars

\* The sweeper's ticker keeps firing, and a pass visits every entry: for each
\* key, the removal of its expired entry is not postponed forever.  Nothing
\* is assumed about the callers or the clock.
SweepFairness ==
    \A key \in CacheKeys :
        WF_vars(CleanupStep /\ (KeyPrefix \o key) \notin DOMAIN items')

SpecMemCacheLive == SpecMemCache /\ SweepFairness


----------------------------------------------------------------------------
(* The Cache decorator over a provider that can fail (RedisCache over a    *)
(* client whose calls return errors): Get reports a miss on any error and  *)
(* may hand back bytes that do not decode, Set and Delete may fail and     *)
(* leave the stored entries as they were.                                  *)

\* Bytes that json.Unmarshal rejects.
Garbage == [garbage |-> TRUE]

GetBehaviours == {"normal", "miss", "garbage"}
WriteBehaviours == {"ok", "fail"}

\* RedisCache.Get: an error of the client is a miss.
RC_Get(its, key, behaviour, t) ==
    IF behaviour = "miss" THEN [found |-> FALSE, data |-> <<>>, items |-> its]
    ELSE IF behaviour = "garbage" THEN [found |-> TRUE, data |-> Garbage, items |-> its]
    ELSE MC_Get(its, key, t)

\* RedisCache.Set and Delete: [items, size, failed]; the entries are kept by
\* the server, which has no size counter.
RC_Set(its, sz, key, value, ttl, behaviour, t) ==
    IF behaviour = "fail" THEN {[items |-> its, size |-> sz, failed |-> TRUE]}
    ELSE {[items |-> With(its, KeyPrefix \o key,
                          [data |-> value, expiresAt |-> t + (IF ttl = 0 THEN TTL ELSE ttl)]),
           size |-> sz, failed |-> FALSE]}

RC_Delete(its, sz, key, behaviour) ==
    IF behaviour = "fail" THEN [items |-> its, size |-> sz, failed |-> TRUE]
    ELSE [items |-> IF (KeyPrefix \o key) \in DOMAIN its THEN Without(its, KeyPrefix \o key)
                    ELSE its,
          size |-> sz, failed |-> FALSE]

\* Whether json.Unmarshal accepts the bytes.
Decodes(d) == "garbage" \notin DOMAIN d

\* What a write of the decorator returns after its invalidations, one of which
\* failed.
CR_AfterInvalidation_Propagating(res, cacheFailed) ==
    IF cacheFailed THEN [res EXCEPT !.err = Internal, !.out = <<>>] ELSE res

\* What a write of the decorator returns after its invalidations: the error
\* of cache.Delete is discarded.
CR_AfterInvalidation(res, cacheFailed) == res

FaultyGetByID(t, u, id) ==
    \E gb \in GetBehaviours, sb \in WriteBehaviours :
        LET ti == TenantInfo(t, u)
            got == RC_Get(items, makeKey("get", id), gb, now)
            res == Base_GetByID(baseKind, data, coll, ti, id)
        IN /\ IF got.found /\ Decodes(got.data)
              THEN /\ lastOp' = [Obs("faultycache", "GetByID", t, id, <<>>,
                                     Result(OK, <<Unmarshal(got.data)>>, coll, <<>>))
                                   EXCEPT !.hit = TRUE]
                   /\ UNCHANGED <<items, size>>
              ELSE /\ lastOp' = [Obs("faultycache", "GetByID", t, id, <<>>, res)
                                   EXCEPT !.delegated = TRUE,
                                          !.afterWrite = IF got.found THEN "garbage" ELSE gb]
                   /\ IF res.err # OK
                      THEN items' = got.items /\ UNCHANGED size
                      ELSE \E s \in RC_Set(got.items, size, makeKey("get", id),
                                           Marshal(res.out[1]), TTL, sb, now) :
                              items' = s.items /\ size' = s.size
           /\ UNCHANGED <<data, coll, deletedIds, dirty, createdStamp>>
           /\ CacheFrame

FaultyCreate(t, u, name) ==
    \E newID \in FreeIDs(data), db \in WriteBehaviours :
        LET ti == TenantInfo(t, u)
            payload == NewEntity(entityKind, name)
            res == Base_Create(baseKind, data, coll, ti, payload, newID)
            inv == IF ti.TenantID # ""
                   THEN RC_Delete(items, size, makeTenantKey("list", ti.TenantID), db)
                   ELSE [items |-> items, size |-> size, failed |-> FALSE]
            ret == IF res.err = OK THEN CR_AfterInvalidation(res, inv.failed) ELSE res
        IN /\ data' = res.data /\ coll' = res.coll
           /\ IF res.err = OK THEN items' = inv.items /\ size' = inv.size
              ELSE UNCHANGED <<items, size>>
           /\ lastOp' = [Obs("faultycache", "Create", t, newID, <<>>, ret)
                           EXCEPT !.entity = Some(payload),
                                  !.afterWrite = IF res.err = OK /\ inv.failed THEN "fail" ELSE "ok"]
           /\ UNCHANGED <<deletedIds, dirty, createdStamp>>
           /\ CacheFrame

FaultyUpdate(t, u, id, name) ==
    \E db1 \in WriteBehaviours, db2 \in WriteBehaviours :
        LET ti == TenantInfo(t, u)
            payload == EditedEntity(entityKind, id, name)
            res == Base_Update(baseKind, data, coll, ti, id, payload)
            inv1 == RC_Delete(items, size, makeKey("get", id), db1)
            inv2 == IF ti.TenantID # ""
                    THEN RC_Delete(inv1.items, inv1.size, makeTenantKey("list", ti.TenantID), db2)
                    ELSE [items |-> inv1.items, size |-> inv1.size, failed |-> FALSE]
            failed == inv1.failed \/ inv2.failed
            ret == IF res.err = OK THEN CR_AfterInvalidation(res, failed) ELSE res
        IN /\ data' = res.data /\ coll' = res.coll
           /\ IF res.err = OK THEN items' = inv2.items /\ size' = inv2.size
              ELSE UNCHANGED <<items, size>>
           /\ lastOp' = [Obs("faultycache", "Update", t, id, <<>>, ret)
                           EXCEPT !.entity = Some(payload),
                                  !.afterWrite = IF res.err = OK /\ failed THEN "fail" ELSE "ok"]
           /\ UNCHANGED <<deletedIds, dirty, createdStamp>>
           /\ CacheFrame

FaultyDelete(t, u, id) ==
    \E db1 \in WriteBehaviours, db2 \in WriteBehaviours :
        LET ti == TenantInfo(t, u)
            res == Base_Delete(baseKind, data, coll, ti, id)
            inv1 == RC_Delete(items, size, makeKey("get", id), db1)
            inv2 == IF ti.TenantID # ""
                    THEN RC_Delete(inv1.items, inv1.size, makeTenantKey("list", ti.TenantID), db2)
                    ELSE [items |-> inv1.items, size |-> inv1.size, failed |-> FALSE]
            failed == inv1.failed \/ inv2.failed
            ret == IF res.err = OK THEN CR_AfterInvalidation(res, failed) ELSE res
        IN /\ data' = res.data /\ coll' = res.coll
           /\ IF res.err = OK THEN items' = inv2.items /\ size' = inv2.size
              ELSE UNCHANGED <<items, size>>
           /\ lastOp' = [Obs("faultycache", "Delete", t, id, <<>>, ret)
                           EXCEPT !.afterWrite = IF res.err = OK /\ failed THEN "fail" ELSE "ok"]
           /\ UNCHANGED <<deletedIds, dirty, createdStamp>>
           /\ CacheFrame

InitFaultyCache == InitCommon /\ entityKind = "rich" /\ baseKind = "memory"

NextFaultyCache ==
    \E u \in CtxUsers :
        \/ \E name \in Names : FaultyCreate(TenantA, u, name)
        \/ \E id \in IDs : FaultyGetByID(TenantA, u, id)
        \/ \E id \in IDs, name \in Names : FaultyUpdate(TenantA, u, id, name)
        \/ \E id \in IDs : FaultyDelete(TenantA, u, id)

SpecFaultyCache == InitFaultyCache /\ [][NextFaultyCache]_vars


----------------------------------------------------------------------------
(* sanitizeFilters applied to filter maps drawn from a set of keys and a   *)
(* set of values.                                                          *)

ArrV(seq) == <<"arr", seq>>

RECURSIVE Rep(_, _)
\* strings.Repeat
Rep(c, n) == IF n = 0 THEN "" ELSE c \o Rep(c, n - 1)

RECURSIVE Nested(_)
\* A string wrapped in n objects: {"a": {"a": ... "x"}}.
Nested(n) == IF n = 0 THEN Str("x") ELSE MapV([k \in {"a"} |-> Nested(n - 1)])

\* Identifiers of 50, 51 and 52 characters.
Key50 == Rep("k", 50)
Key51 == Rep("k", 51)
Key52 == Rep("k", 52)

SanitizeKeys ==
    {"name", "created.set_at", "custom_1", "Field", "_x", "1abc", "a.b", "a-b", "$where",
     "evalx", "myFunction", Key50, Key51, Key52}

SanitizeValues ==
    {NilV, Str("Ana"), Str("$gt"), Str("javascript:x"), Str("somewhere"), IntV(1), BoolV(TRUE),
     UUIDV(TenantA), TimeV(1),
     Nested(1), Nested(2), Nested(3), Nested(4), Nested(5),
     MapV([k \in {"$ne"} |-> NilV]),
     MapV([k \in {"a", "$gt"} |-> IF k = "a" THEN Str("eval(1)") ELSE IntV(1)]),
     ArrV(<<Str("Ana")>>), ArrV(<<Str("$where")>>),
     ArrV(<<MapV([k \in {"$ne"} |-> NilV])>>),
     ArrV(<<>>)}

\* Filter maps of one key, of two keys, and of 20 and 21 keys.
ManyKeys(n) == {"f" \o Rep("x", i) : i \in 1..n}
SanitizeInputs ==
    {[k \in {key} |-> v] : key \in SanitizeKeys, v \in SanitizeValues}
    \cup {[k \in {"name", key} |-> IF k = "name" THEN Str("Ana") ELSE v] :
             key \in {"$where", Key51}, v \in {Str("Ana"), Str("$gt"), Nested(4)}}
    \cup {[k \in ManyKeys(n) |-> Str("Ana")] : n \in {MaxFilterKeys, MaxFilterKeys + 1}}

\* A call of sanitizeFilters about to be made with the given argument.
Pending(filters) == Obs("sanitizer", "pending", "", NilUUID, filters, Result(OK, <<>>, <<>>, <<>>))

\* The call of sanitizeFilters: the observation holds the argument and the
\* sanitized map (or the error).
SanitizeCall ==
    LET filters == lastOp.filters
        san == sanitizeFilters(filters)
    IN /\ lastOp.layer = "sanitizer" /\ lastOp.op = "pending"
       /\ lastOp' = Obs("sanitizer", "sanitizeFilters", "", NilUUID, filters,
                        Result(IF san.ok THEN OK ELSE Validation,
                               IF san.ok THEN <<san.m>> ELSE <<>>, <<>>, <<>>))
       /\ UNCHANGED <<now, entityKind, coll, data, items, size, baseKind, histLog, deletedIds,
                      dirty, createdStamp, calls, lastSet, stats, activeRequests>>

InitSanitize ==
    /\ now = 1
    /\ coll = [i \in IDs |-> NoDoc]
    /\ data = [i \in IDs |-> NoDoc]
    /\ items = <<>>
    /\ size = 0
    /\ histLog = <<>>
    /\ deletedIds = {}
    /\ dirty = {}
    /\ createdStamp = [i \in IDs |-> None]
    /\ calls = [g \in Goroutines |-> Idle]
    /\ lastSet = [k \in CacheKeys |-> None]
    /\ stats = <<>>
    /\ activeRequests = 0
    /\ entityKind = "rich" /\ baseKind = "audit"
    /\ \E f \in SanitizeInputs : lastOp = Pending(f)

NextSanitize == SanitizeCall

SpecSanitize == InitSanitize /\ [][NextSanitize]_vars


----------------------------------------------------------------------------
(* The metrics tracker: Metrics.stats under Metrics.mu, called by request   *)
(* handlers and swept by the cleanup routine.                               *)

\* config.MaxEndpoints of the tracker under analysis.
MaxEndpoints == 2

\* config.CleanupInterval in clock ticks; cleanup keeps two intervals.
CleanupInterval == 1

\* The clock of the tracker runs to MaxMetricsTime, and one endpoint is
\* requested at most MaxRequests times.
MaxMetricsTime == 4
MaxRequests == 2

\* fmt.Sprintf("%s %s", method, path)
EndpointKey(method, path) == method \o " " \o path

\* The requests handlers report: method, path, statusCode.
Requests ==
    { [method |-> "GET", path |-> "/a", statusCode |-> 200],
      [method |-> "GET", path |-> "/b", statusCode |-> 200],
      [method |-> "POST", path |-> "/a", statusCode |-> 500] }

RequestOf(key) == CHOOSE r \in Requests : EndpointKey(r.method, r.path) = key

\* Metrics.RecordRequest without the MaxEndpoints check.
M_RecordRequest_Uncapped(st, key, statusCode, t) ==
    LET old == IF key \in DOMAIN st THEN st[key]
               ELSE [Requests |-> 0, Errors |-> 0, LastAccess |-> 0]
    IN With(st, key, [Requests |-> old.Requests + 1,
                      Errors |-> old.Errors + (IF statusCode >= 400 THEN 1 ELSE 0),
                      LastAccess |-> t])

\* Metrics.RecordRequest, the body under m.mu: the new stats map.
M_RecordRequest(st, key, statusCode, t) ==
    IF Cardinality(DOMAIN st) >= MaxEndpoints /\ key \notin DOMAIN st
    THEN st
    ELSE LET old == IF key \in DOMAIN st THEN st[key]
                    ELSE [Requests |-> 0, Errors |-> 0, LastAccess |-> 0]
         IN With(st, key, [Requests |-> old.Requests + 1,
                           Errors |-> old.Errors + (IF statusCode >= 400 THEN 1 ELSE 0),
                           LastAccess |-> t])

\* Metrics.cleanup, the body under m.mu: endpoints last accessed before the
\* cutoff are deleted.
M_cleanup(st, t) ==
    LET cutoff == t - CleanupInterval * 2
    IN [k \in {x \in DOMAIN st : ~(st[x].LastAccess < cutoff)} |-> st[k]]

\* m.mu is free for g to take.
MetricsMutexFree(g) == \A h \in Goroutines \ {g} : calls[h].target # "stats"

MetricsFrame ==
    UNCHANGED <<entityKind, coll, data, items, size, baseKind, histLog, deletedIds, dirty,
                createdStamp, lastSet, activeRequests>>

\* g enters RecordRequest and takes m.mu.
RecordRequestEnter(g) ==
    \E r \in Requests :
        LET key == EndpointKey(r.method, r.path)
        IN /\ calls[g] = Idle /\ MetricsMutexFree(g)
           /\ key \in DOMAIN stats => stats[key].Requests < MaxRequests
           /\ calls' = [calls EXCEPT ![g] =
                           Call("RecordRequest", "locked", "stats", "write", key, "", TRUE)]
           /\ UNCHANGED <<now, stats, lastOp>>
           /\ MetricsFrame

\* g enters cleanup (the ticker of the tracker fired) and takes m.mu.
MetricsCleanupEnter(g) ==
    /\ calls[g] = Idle /\ MetricsMutexFree(g)
    /\ calls' = [calls EXCEPT ![g] = Call("cleanup", "locked", "stats", "write", "", "", TRUE)]
    /\ UNCHANGED <<now, stats, lastOp>>
    /\ MetricsFrame

\* g runs the body it holds m.mu for and releases m.mu.
MetricsStep(g) ==
    LET c == calls[g]
    IN /\ c.target = "stats"
       /\ stats' = IF c.op = "RecordRequest"
                   THEN M_RecordRequest(stats, c.id, RequestOf(c.id).statusCode, now)
                   ELSE M_cleanup(stats, now)
       /\ lastOp' = Obs("metrics", c.op, "", c.id, <<>>, Result(OK, <<>>, <<>>, <<>>))
       /\ calls' = [calls EXCEPT ![g] = Idle]
       /\ UNCHANGED now
       /\ MetricsFrame

MetricsTick ==
    /\ now < MaxMetricsTime
    /\ now' = now + 1
    /\ UNCHANGED <<calls, stats, lastOp>>
    /\ MetricsFrame

NextMetrics ==
    \/ \E g \in Goroutines : RecordRequestEnter(g)
    \/ \E g \in Goroutines : MetricsCleanupEnter(g)
    \/ \E g \in Goroutines : MetricsStep(g)
    \/ MetricsTick

SpecMetrics == InitShared /\ [][NextMetrics]_vars

----------------------------------------------------------------------------
(* Metrics.mu as a sync.RWMutex.  Lock announces the writer and then waits   *)
(* for the read locks held to be released; from the announcement until the *)
(* writer's Unlock every RLock waits, also the RLock of a goroutine that    *)
(* already holds a read lock.                                              *)

\* Requests in flight at most, as the Monitoring middleware counts them.
MaxActive == 1

MetricsWriters == {"RecordRequest", "IncrementActive", "DecrementActive", "cleanup"}

\* The read locks g holds, by its position in GetStats.
ReadLocksHeld(g) ==
    CASE calls[g].pc \in {"totals", "GetMemoryUsage.RLock", "return"} -> 1
      [] calls[g].pc = "GetMemoryUsage" -> 2
      [] OTHER -> 0

\* A writer has announced itself (it waits for the readers or holds the lock).
WriterAnnounced(g) == calls[g].pc \in {"Lock.wait", "locked"}

\* sync.RWMutex.RLock returns for g.
CanRLock(g) == \A h \in Goroutines : ~WriterAnnounced(h)

\* sync.RWMutex.Lock: g may announce itself, and g's Lock returns.
CanAnnounce(g) == \A h \in Goroutines \ {g} : ~WriterAnnounced(h)
CanLock(g) == \A h \in Goroutines : ReadLocksHeld(h) = 0

LockFrame ==
    UNCHANGED <<now, entityKind, coll, data, items, size, baseKind, histLog, deletedIds, dirty,
                createdStamp, lastSet>>

\* g calls GetStats or one of the writers.
MetricsCallEnter(g) ==
    /\ calls[g].op = "idle"
    /\ \/ calls' = [calls EXCEPT ![g] = Call("GetStats", "RLock", "mu", "read", "", "", FALSE)]
       \/ \E r \in Requests :
             LET key == EndpointKey(r.method, r.path)
             IN /\ key \in DOMAIN stats => stats[key].Requests < MaxRequests
                /\ calls' = [calls EXCEPT ![g] =
                                Call("RecordRequest", "Lock", "mu", "write", key, "", FALSE)]
       \/ /\ activeRequests < MaxActive
          /\ calls' = [calls EXCEPT ![g] =
                          Call("IncrementActive", "Lock", "mu", "write", "", "", FALSE)]
       \/ /\ activeRequests > 0
          /\ calls' = [calls EXCEPT ![g] =
                          Call("DecrementActive", "Lock", "mu", "write", "", "", FALSE)]
       \/ calls' = [calls EXCEPT ![g] = Call("cleanup", "Lock", "mu", "write", "", "", FALSE)]
    /\ UNCHANGED <<stats, activeRequests, lastOp>>
    /\ LockFrame

\* The next step of g's GetStats: RLock, the totals, GetMemoryUsage with its
\* own RLock and RUnlock, and the deferred RUnlock.
GetStatsStep(g) ==
    LET c == calls[g]
    IN /\ c.op = "GetStats"
       /\ CASE c.pc = "RLock" ->
                 /\ CanRLock(g)
                 /\ calls' = [calls EXCEPT ![g].pc = "totals"]
                 /\ UNCHANGED lastOp
            [] c.pc = "totals" ->
                 /\ calls' = [calls EXCEPT ![g].pc = "GetMemoryUsage.RLock"]
                 /\ UNCHANGED lastOp
            [] c.pc = "GetMemoryUsage.RLock" ->
                 /\ CanRLock(g)
                 /\ calls' = [calls EXCEPT ![g].pc = "GetMemoryUsage"]
                 /\ UNCHANGED lastOp
            [] c.pc = "GetMemoryUsage" ->
                 /\ calls' = [calls EXCEPT ![g].pc = "return"]
                 /\ UNCHANGED lastOp
            [] c.pc = "return" ->
                 /\ calls' = [calls EXCEPT ![g] = Idle]
                 /\ lastOp' = [Obs("metrics", "GetStats", "", "", <<>>,
                                   Result(OK, <<>>, <<>>, <<>>))
                                 EXCEPT !.take = Cardinality(DOMAIN stats)]
       /\ UNCHANGED <<stats, activeRequests>>
       /\ LockFrame

\* The next step of g's writer: Lock (announce, then wait for the readers), the
\* body and the deferred Unlock.
MetricsWriterStep(g) ==
    LET c == calls[g]
    IN /\ c.op \in MetricsWriters
       /\ CASE c.pc = "Lock" ->
                 /\ CanAnnounce(g)
                 /\ calls' = [calls EXCEPT ![g].pc = "Lock.wait"]
                 /\ UNCHANGED <<stats, activeRequests, lastOp>>
            [] c.pc = "Lock.wait" ->
                 /\ CanLock(g)
                 /\ calls' = [calls EXCEPT ![g].pc = "locked", ![g].locked = TRUE]
                 /\ UNCHANGED <<stats, activeRequests, lastOp>>
            [] c.pc = "locked" ->
                 /\ stats' = CASE c.op = "RecordRequest" ->
                                     M_RecordRequest(stats, c.id, RequestOf(c.id).statusCode, now)
                               [] c.op = "cleanup" -> M_cleanup(stats, now)
                               [] OTHER -> stats
                 /\ activeRequests' = CASE c.op = "IncrementActive" -> activeRequests + 1
                                        [] c.op = "DecrementActive" -> activeRequests - 1
                                        [] OTHER -> activeRequests
                 /\ calls' = [calls EXCEPT ![g] = Idle]
                 /\ lastOp' = Obs("metrics", c.op, "", c.id, <<>>, Result(OK, <<>>, <<>>, <<>>))
       /\ LockFrame

NextMetricsLock ==
    \/ \E g \in Goroutines : MetricsCallEnter(g)
    \/ \E g \in Goroutines : GetStatsStep(g)
    \/ \E g \in Goroutines : MetricsWriterStep(g)

SpecMetricsLock == InitShared /\ [][NextMetricsLock]_vars

\* The scheduler runs every goroutine that can take a step, and a goroutine
\* waiting for the mutex gets it if it is free again and again.
SpecMetricsLockFair ==
    /\ SpecMetricsLock
    /\ \A g \in Goroutines : SF_vars(GetStatsStep(g)) /\ SF_vars(MetricsWriterStep(g))

----------------------------------------------------------------------------
(* The Cache decorator called by two goroutines.  CachedRepository holds no *)
(* lock of its own: a call is a sequence of calls to the wrapped store and  *)
(* to the cache provider, each of them taken as one step here, and the      *)
(* steps of two calls interleave freely.                                   *)

\* A call of the decorator in progress: its position, its arguments and the
\* entity base.GetByID returned to it.
CachedCall(op, pc, id, name, got) ==
    [op |-> op, pc |-> pc, target |-> "decorator", mode |-> "none", id |-> id, name |-> name,
     locked |-> FALSE, got |-> got]

AllReturned == \A g \in Goroutines : calls[g].op = "idle"

\* g calls GetByID, Update or Delete of the decorator.
CachedEnter(g) ==
    /\ calls[g].op = "idle"
    /\ size <= MaxCached
    /\ \E id \in IDs :
          \/ calls' = [calls EXCEPT ![g] = CachedCall("GetByID", "cache.Get", id, "", None)]
          \/ calls' = [calls EXCEPT ![g] = CachedCall("Update", "base", id, "Bob", None)]
          \/ calls' = [calls EXCEPT ![g] = CachedCall("Delete", "base", id, "", None)]
    /\ UNCHANGED <<data, items, size, lastOp>>
    /\ ConcFrame

\* The next step of g's GetByID.
CachedGetByIDStep(g) ==
    LET c == calls[g]
        ti == TenantInfo(TenantA, "user1")
        key == makeKey("get", c.id)
        got == MC_Get(items, key, now)
        res == Base_GetByID(baseKind, data, coll, ti, c.id)
        return(r, hit) == /\ lastOp' = [Obs("cache", "GetByID", TenantA, c.id, <<>>, r)
                                           EXCEPT !.hit = hit, !.delegated = ~hit]
                          /\ calls' = [calls EXCEPT ![g] = Idle]
    IN /\ c.op = "GetByID"
       /\ CASE c.pc = "cache.Get" ->
                 /\ items' = got.items /\ UNCHANGED size
                 /\ IF got.found
                    THEN return(Result(OK, <<Unmarshal(got.data)>>, coll, <<>>), TRUE)
                    ELSE /\ calls' = [calls EXCEPT ![g].pc = "base"]
                         /\ UNCHANGED lastOp
            [] c.pc = "base" ->
                 /\ UNCHANGED <<items, size>>
                 /\ IF res.err # OK
                    THEN return(res, FALSE)
                    ELSE /\ calls' = [calls EXCEPT ![g].pc = "cache.Set", ![g].got = res.out]
                         /\ UNCHANGED lastOp
            [] c.pc = "cache.Set" ->
                 /\ \E s \in MC_Set(items, size, key, Marshal(c.got[1]), TTL, now) :
                       items' = s.items /\ size' = s.size
                 /\ return(Result(OK, c.got, coll, <<>>), FALSE)
       /\ UNCHANGED data
       /\ ConcFrame

\* The next step of g's Update or Delete.
CachedWriteStep(g) ==
    LET c == calls[g]
        ti == TenantInfo(TenantA, "user1")
        res == IF c.op = "Update"
               THEN Base_Update(baseKind, data, coll, ti, c.id,
                                EditedEntity(entityKind, c.id, c.name))
               ELSE Base_Delete(baseKind, data, coll, ti, c.id)
        inv1 == InvalidateItem(items, size, c.id)
        inv2 == InvalidateTenant(items, size, ti)
    IN /\ c.op \in {"Update", "Delete"}
       /\ CASE c.pc = "base" ->
                 /\ data' = res.data
                 /\ UNCHANGED <<items, size>>
                 /\ IF res.err # OK
                    THEN /\ lastOp' = Obs("cache", c.op, TenantA, c.id, <<>>, res)
                         /\ calls' = [calls EXCEPT ![g] = Idle]
                    ELSE /\ calls' = [calls EXCEPT ![g].pc = "cache.Delete", ![g].got = res.out]
                         /\ UNCHANGED lastOp
            [] c.pc = "cache.Delete" ->
                 /\ items' = inv1.items /\ size' = inv1.size
                 /\ calls' = [calls EXCEPT ![g].pc = "cache.Delete list"]
                 /\ UNCHANGED <<data, lastOp>>
            [] c.pc = "cache.Delete list" ->
                 /\ items' = inv2.items /\ size' = inv2.size
                 /\ lastOp' = Obs("cache", c.op, TenantA, c.id, <<>>,
                                  Result(OK, c.got, coll, <<>>))
                 /\ calls' = [calls EXCEPT ![g] = Idle]
                 /\ UNCHANGED data
       /\ ConcFrame

\* An entity is created while no other call is in progress.
QuietCreate ==
    /\ AllReturned
    /\ CachedCreate(TenantA, "user1", "Ana")

NextSharedDecorator ==
    \/ QuietCreate
    \/ \E g \in Goroutines : CachedEnter(g)
    \/ \E g \in Goroutines : CachedGetByIDStep(g)
    \/ \E g \in Goroutines : CachedWriteStep(g)

SpecSharedDecorator == InitShared /\ [][NextSharedDecorator]_vars

\* The same calls made one after another: a call is entered only when every
\* other call has returned.
NextSerialDecorator ==
    \/ QuietCreate
    \/ \E g \in Goroutines : AllReturned /\ CachedEnter(g)
    \/ \E g \in Goroutines : CachedGetByIDStep(g)
    \/ \E g \in Goroutines : CachedWriteStep(g)

SpecSerialDecorator == InitShared /\ [][NextSerialDecorator]_vars

----------------------------------------------------------------------------
(* The History decorator called by two goroutines.  Update is three calls, *)
(* base.GetByID, base.Update and history.RecordChanges, with no lock       *)
(* around them; each is one step here (the document store executes one     *)
(* operation at a time).                                                   *)

\* An Update of the decorator in progress.  before is what base.GetByID
\* returned, updated what base.Update returned; overwrote is the record
\* base.Update replaced, and alone tells that no other Update of the same id
\* was in progress at any time during this one.
HistoryCall(pc, id, entity, alone) ==
    [op |-> "Update", pc |-> pc, target |-> "decorator", mode |-> "none", id |-> id,
     name |-> entity.Name, locked |-> FALSE, entity |-> entity, before |-> None,
     updated |-> None, overwrote |-> None, alone |-> alone]

SharedNames == {"Bob", "Cy"}

\* g calls Update(id, entity) of the decorator.
HistoryUpdateEnter(g) ==
    \E id \in IDs, name \in SharedNames :
        LET others == {h \in Goroutines \ {g} : calls[h].op = "Update" /\ calls[h].id = id}
        IN /\ calls[g].op = "idle"
           /\ Len(histLog) < MaxHist
           /\ calls' = [h \in Goroutines |->
                           IF h = g
                           THEN HistoryCall("base.GetByID", id,
                                            EditedEntity(entityKind, id, name), others = {})
                           ELSE IF h \in others THEN [calls[h] EXCEPT !.alone = FALSE]
                           ELSE calls[h]]
           /\ UNCHANGED <<coll, histLog, lastOp>>
           /\ UNCHANGED <<now, entityKind, data, items, size, baseKind, deletedIds, dirty,
                          createdStamp, lastSet, stats, activeRequests>>

\* The next step of g's Update.
HistoryUpdateStep(g) ==
    LET c == calls[g]
        ti == TenantInfo(TenantA, "user1")
        before == MAR_GetByID(coll, ti, c.id)
        upd == MAR_Update(coll, ti, c.id, c.entity)
        log == RecordChanges(histLog, ti, c.id, typeName, "Update", c.before[1], c.updated[1])
        return(err, out, recorded) ==
            /\ lastOp' = Obs("sharedhistory", "Update", TenantA, c.id, <<>>,
                             Result(err, out, <<>>, <<>>))
                         @@ [recorded |-> recorded, overwrote |-> c.overwrote]
            /\ calls' = [calls EXCEPT ![g] = Idle]
    IN /\ c.op = "Update" /\ c.target = "decorator"
       /\ CASE c.pc = "base.GetByID" ->
                 /\ UNCHANGED <<coll, histLog>>
                 /\ IF before.err # OK
                    THEN return(before.err, <<c.entity>>, None)
                    ELSE /\ calls' = [calls EXCEPT ![g].pc = "base.Update",
                                                   ![g].before = before.out]
                         /\ UNCHANGED lastOp
            [] c.pc = "base.Update" ->
                 /\ coll' = upd.coll
                 /\ UNCHANGED histLog
                 /\ IF upd.err # OK
                    THEN return(upd.err, <<c.entity>>, None)
                    ELSE /\ calls' = [calls EXCEPT ![g].pc = "history.RecordChanges",
                                                   ![g].updated = upd.out,
                                                   ![g].overwrote = before.out]
                         /\ UNCHANGED lastOp
            [] c.pc = "history.RecordChanges" ->
                 /\ histLog' = log
                 /\ UNCHANGED coll
                 /\ return(OK, c.updated,
                           IF log = histLog THEN None ELSE Some(log[Len(log)]))
       /\ UNCHANGED <<now, entityKind, data, items, size, baseKind, deletedIds, dirty,
                      createdStamp, lastSet, stats, activeRequests>>

\* A record is created while no Update is in progress.
QuietMongoCreate ==
    /\ AllReturned
    /\ MongoCreate(TenantA, "user1", "Ana")

InitSharedHistory == InitCommon /\ entityKind = "rich" /\ baseKind = "audit"

NextSharedHistory ==
    \/ QuietMongoCreate
    \/ \E g \in Goroutines : HistoryUpdateEnter(g)
    \/ \E g \in Goroutines : HistoryUpdateStep(g)

SpecSharedHistory == InitSharedHistory /\ [][NextSharedHistory]_vars

----------------------------------------------------------------------------
(* The writes of both audit decorators under the Tenant Context that        *)
(* DefaultTenantExtractor builds: X-Tenant-ID and X-User-ID are whatever    *)
(* strings the request carries.                                            *)

\* X-User-ID values: absent, a UUID, and a name that is no UUID.
HeaderUsers == {"", "user1", "root"}
\* X-Tenant-ID values: a UUID, and one that is no UUID.
HeaderTenants == {TenantA, "t1"}

InitHeaderWrites == InitCommon /\ entityKind \in {"rich", "legacy"} /\ baseKind = "audit"

\* The document-store decorator.
NextHeaderWrites ==
    \E t \in HeaderTenants, u \in HeaderUsers :
        \/ MongoCreate(t, u, "Ana")
        \/ \E id \in IDs : MongoUpdate(t, u, id, "Bob")
        \/ \E id \in IDs : MongoDelete(t, u, id)

SpecHeaderWrites == InitHeaderWrites /\ [][NextHeaderWrites]_vars

InitHeaderWritesMemory == InitCommon /\ entityKind \in {"rich", "legacy"} /\ baseKind = "memory"

\* The generic decorator over the in-memory store.
NextHeaderWritesMemory ==
    \E t \in HeaderTenants, u \in HeaderUsers :
        \/ AuditCreate(t, u, "Ana")
        \/ \E id \in IDs : AuditUpdate(t, u, id, "Bob")
        \/ \E id \in IDs : AuditDelete(t, u, id)

SpecHeaderWritesMemory == InitHeaderWritesMemory /\ [][NextHeaderWritesMemory]_vars

----------------------------------------------------------------------------
(* Claims about the audited document store.                                *)

ReadsWithFilter ==
    {"GetFirst", "GetAll", "GetAllSkipTake", "List", "GetAllIncludingDeleted", "GetDeleted"}

\* C3: for every GetFirst/GetAll/List on the audited document store under a
\* non-empty tenant t and every caller-supplied filter map, the query sent to the
\* database constrains tenant_id to t and deleted to null: no caller-supplied key
\* replaces an implicit filter.
C3_ImplicitFiltersKept ==
    (/\ lastOp.layer = "mongoaudit"
     /\ lastOp.op \in {"GetFirst", "GetAll", "List"}
     /\ lastOp.tenant # "")
    => \A n \in 1..Len(lastOp.queries) :
          /\ "tenant_id" \in DOMAIN lastOp.queries[n]
          /\ lastOp.queries[n]["tenant_id"] = Bin(lastOp.tenant)
          /\ "deleted" \in DOMAIN lastOp.queries[n]
          /\ lastOp.queries[n]["deleted"] = NilV

\* C4: every read of the document-database stores that takes a filter map
\* sanitizes it first: no caller-supplied key containing "$" is part of the native
\* query, and a key "name" with a short string value reaches the query unchanged.
C4_ReadsSanitized ==
    (lastOp.layer = "mongoaudit" /\ lastOp.op \in ReadsWithFilter)
    => \A n \in 1..Len(lastOp.queries) :
          /\ \A k \in DOMAIN lastOp.filters :
                Contains(k, "$") => k \notin DOMAIN lastOp.queries[n]
          /\ ("name" \in DOMAIN lastOp.filters /\ lastOp.filters["name"] = Str("Ana"))
                => (/\ "name" \in DOMAIN lastOp.queries[n]
                    /\ lastOp.queries[n]["name"] = Str("Ana"))

\* C5: after a successful Delete(id) through an audited store, for entities with
\* the rich hooks and with only the legacy hooks alike, GetByID(id) fails with
\* NotFound and the entity is in no GetAll/List result, until it is restored.
C5_DeletedUnreachable ==
    /\ (lastOp.layer = "mongoaudit" /\ lastOp.op = "GetByID" /\ lastOp.id \in deletedIds)
          => lastOp.err = NotFound
    /\ (lastOp.layer = "mongoaudit" /\ lastOp.op \in {"GetAll", "List"})
          => \A n \in 1..Len(lastOp.out) : lastOp.out[n].ID \notin deletedIds

\* The same, for entities with the rich hooks only.
C5_RichDeletedUnreachable == entityKind = "rich" => C5_DeletedUnreachable


\* C6: Delete(id) through any Audit decorator (the generic one and the
\* document-database one) never physically removes the record: it stamps Deleted
\* with active=false and issues an Update, so the record is still stored, and
\* returned by the including-deleted query path, afterwards.
C6_DeleteIsSoft ==
    /\ (lastOp.layer = "audit" /\ lastOp.op = "Delete" /\ lastOp.err = OK)
          => /\ data[lastOp.id] # NoDoc
             /\ IsRich(data[lastOp.id]) => /\ data[lastOp.id].Deleted # None
                                           /\ ~data[lastOp.id].Deleted[1].Active
    /\ (lastOp.layer = "mongoaudit" /\ lastOp.op = "Delete" /\ lastOp.err = OK)
          => /\ coll[lastOp.id] # NoDoc
             /\ "deleted" \in DOMAIN coll[lastOp.id]
             /\ \E n \in 1..Len(MAR_GetAllIncludingDeleted(coll, TenantInfo(lastOp.tenant, ""), FNone).out) :
                   MAR_GetAllIncludingDeleted(coll, TenantInfo(lastOp.tenant, ""), FNone).out[n].ID = lastOp.id

\* C7: GetAllSkipTake of every store implementation fails with a Validation error
\* and returns no records when skip<0, take<0 or take>1000; take=1001 fails and
\* take=1000 succeeds.
C7_PaginationValidated ==
    lastOp.op = "GetAllSkipTake"
    => /\ (lastOp.skip < 0 \/ lastOp.take < 0 \/ lastOp.take > MaxTake)
             => (lastOp.err = Validation /\ lastOp.out = <<>>)
       /\ (lastOp.skip >= 0 /\ lastOp.take = MaxTake) => lastOp.err = OK


----------------------------------------------------------------------------
(* Claims about the Cache decorator. *)

\* C1: after a successful Update(id, e) or Delete(id) through the Cache
\* decorator, the next GetByID(id) through the decorator is not served from the
\* cache: it returns what the wrapped store returns now, which right after an
\* Update is the post-update state and right after a Delete is NotFound.
C1_NoStaleRead ==
    [][ (/\ lastOp'.layer = "cache"
         /\ lastOp'.op = "GetByID"
         /\ lastOp'.id \in DirtyIds)
        => LET base == Base_GetByID(baseKind, data, coll,
                                    TenantInfo(lastOp'.tenant, "user1"), lastOp'.id)
               same == lastOp.layer = "cache" /\ lastOp.err = OK /\ lastOp.id = lastOp'.id
           IN /\ ~lastOp'.hit
              /\ lastOp'.err = base.err
              /\ lastOp'.out = base.out
              /\ (same /\ lastOp.op = "Update")
                    => (lastOp'.err = OK /\ lastOp'.out = lastOp.out)
              /\ (same /\ lastOp.op = "Delete") => lastOp'.err = NotFound ]_vars

\* A GetByID through the decorator that followed a write which found a cached
\* entry of the id, and that returned a record.
C1_Witness ==
    /\ lastOp.layer = "cache"
    /\ lastOp.op = "GetByID"
    /\ lastOp.afterWrite = "invalidated"
    /\ lastOp.err = OK
    /\ lastOp.out[1].Name = "Bob"

\* C2: GetByID(id) on an audited store under tenant t, directly or through the
\* Cache decorator above it, fails with NotFound whenever the record with that
\* id belongs to another tenant, whatever GetByID calls other tenants made before.
C2_TenantIsolation ==
    (/\ lastOp.op = "GetByID"
     /\ lastOp.layer \in {"mongoaudit", "cache"}
     /\ baseKind = "audit"
     /\ coll[lastOp.id] # NoDoc
     /\ coll[lastOp.id]["tenant_id"] # Bin(lastOp.tenant))
    => lastOp.err = NotFound

----------------------------------------------------------------------------
(* Claims about the History decorator. *)

\* The fields the history diff is to leave out: identity, tenant and audit stamps.
ExclusionSet ==
    {"ID", "TenantID", "Created", "Updated", "Deleted",
     "CreatedAt", "UpdatedAt", "CreatedBy", "UpdatedBy", "DeletedAt", "DeletedBy"}

\* C8: when the History decorator's fetch-before-update read of id fails,
\* Update(id, e) is still delegated to the wrapped store, the caller receives the
\* wrapped store's result, and only the history entry is skipped.
C8_UpdateProceeds ==
    [][ (/\ lastOp'.layer = "history"
         /\ lastOp'.op = "Update"
         /\ MAR_GetByID(coll, TenantInfo(lastOp'.tenant, "user1"), lastOp'.id).err # OK)
        => LET wrapped == MAR_Update(coll, TenantInfo(lastOp'.tenant, "user1"),
                                     lastOp'.id, lastOp'.entity[1])
           IN /\ lastOp'.err = wrapped.err
              /\ coll' = wrapped.coll
              /\ histLog' = histLog ]_vars

\* C9: an Update through the History decorator in which no field outside the
\* exclusion set (identity, tenant, audit stamps) differs between the record
\* before and after the update leaves the history log as it was.
C9_NoEntryWithoutChange ==
    [][ (/\ lastOp'.layer = "history"
         /\ lastOp'.op = "Update"
         /\ coll[lastOp'.id] # NoDoc
         /\ coll'[lastOp'.id] # NoDoc
         /\ \A f \in DOMAIN Decode(coll[lastOp'.id]) \ ExclusionSet :
               Decode(coll[lastOp'.id])[f] = Decode(coll'[lastOp'.id])[f])
        => histLog' = histLog ]_vars

\* C10: the changed-field map of every HistoryEntry an Update through the History
\* decorator adds has as keys exactly the non-excluded fields that differ between
\* the pre-update and the post-update record, each with the pre-update value as
\* before and the post-update value as after; one differing field gives one key.
C10_EntryIsTheDiff ==
    [][ (/\ lastOp'.layer = "history"
         /\ lastOp'.op = "Update"
         /\ Len(histLog') > Len(histLog))
        => LET e == histLog'[Len(histLog')]
               pre == Decode(coll[lastOp'.id])
               post == Decode(coll'[lastOp'.id])
               diff == {f \in DOMAIN pre \ ExclusionSet : pre[f] # post[f]}
           IN /\ DOMAIN e.Changes = diff
              /\ \A f \in diff : e.Changes[f] = [Before |-> pre[f], After |-> post[f]]
              /\ Cardinality(diff) = 1 => Cardinality(DOMAIN e.Changes) = 1 ]_vars


\* C11: GetHistory(entityID) under tenant t returns exactly the history entries
\* whose entity ID is entityID and whose tenant is t, newest first: in order of
\* non-increasing trigger timestamp.
C11_HistoryNewestFirst ==
    (lastOp.layer = "history" /\ lastOp.op = "GetHistory" /\ lastOp.tenant # "")
    => /\ lastOp.err = OK
       /\ {lastOp.out[n] : n \in 1..Len(lastOp.out)}
             = {histLog[n] : n \in {m \in 1..Len(histLog) :
                                      /\ histLog[m].EntityID = lastOp.id
                                      /\ histLog[m].TenantID = lastOp.tenant}}
       /\ \A a, b \in 1..Len(lastOp.out) :
             a < b => lastOp.out[a].TriggerAt >= lastOp.out[b].TriggerAt

\* The same without the order: the entries returned are those of the entity and tenant.
C11_HistoryEntriesOfEntity ==
    (lastOp.layer = "history" /\ lastOp.op = "GetHistory" /\ lastOp.tenant # "")
    => /\ lastOp.err = OK
       /\ {lastOp.out[n] : n \in 1..Len(lastOp.out)}
             = {histLog[n] : n \in {m \in 1..Len(histLog) :
                                      /\ histLog[m].EntityID = lastOp.id
                                      /\ histLog[m].TenantID = lastOp.tenant}}

----------------------------------------------------------------------------
(* Claims about the audit stamps. *)

C13_CreatedSetOnce ==
    \A id \in IDs :
        createdStamp[id] # None
        => /\ data[id] # NoDoc => data[id].Created = createdStamp[id][1]
           /\ coll[id] # NoDoc => Decode(coll[id]).Created = createdStamp[id][1]

\* C14: Update(id, e) through an Audit decorator under tenant t fails with
\* NotFound and leaves the stored record unchanged when the record with that id
\* belongs to another tenant; when it succeeds, the stored record's tenant is t
\* whatever tenant the payload carried.
C14_UpdateTenantScoped ==
    [][ (lastOp'.layer \in {"audit", "mongoaudit"} /\ lastOp'.op = "Update" /\ lastOp' # lastOp)
        => /\ (data[lastOp'.id] # NoDoc /\ lastOp'.layer = "audit"
                  /\ data[lastOp'.id].TenantID # lastOp'.tenant)
                 => (lastOp'.err = NotFound /\ data' = data)
           /\ (coll[lastOp'.id] # NoDoc /\ lastOp'.layer = "mongoaudit"
                  /\ Decode(coll[lastOp'.id]).TenantID # lastOp'.tenant)
                 => (lastOp'.err = NotFound /\ coll' = coll)
           /\ (lastOp'.err = OK /\ lastOp'.layer = "audit")
                 => data'[lastOp'.id].TenantID = lastOp'.tenant
           /\ (lastOp'.err = OK /\ lastOp'.layer = "mongoaudit")
                 => Decode(coll'[lastOp'.id]).TenantID = lastOp'.tenant ]_vars

\* C15: every successful Create returns an entity carrying the ID under which
\* it was stored (never the zero ID), a GetByID with the returned ID finds that
\* entity, and every record stored before is still there, unchanged.
C15_CreateReturnsStoredID ==
    [][ (lastOp'.op = "Create" /\ lastOp'.err = OK /\ lastOp'.layer \in {"audit", "mongoaudit"})
            => LET returned == lastOp'.out[1]
               IN /\ returned.ID # NilUUID
                  /\ returned.ID = lastOp'.id
                  /\ lastOp'.layer = "audit"
                        => /\ returned.ID \in IDs /\ MEM_GetByID(data', returned.ID).out = <<returned>>
                           /\ \A i \in IDs : data[i] # NoDoc => data'[i] = data[i]
                  /\ lastOp'.layer = "mongoaudit"
                        => /\ returned.ID \in IDs
                           /\ MAR_GetByID(coll', TenantInfo(lastOp'.tenant, "user1"), returned.ID).out
                                 = <<returned>>
                           /\ \A i \in IDs : coll[i] # NoDoc => coll'[i] = coll[i] ]_vars

\* C16: after a successful Create, through either audit decorator under tenant
\* t, of an entity with the rich hooks and the zero ID, the stored entity has a
\* non-zero ID, tenant t and the active flag set.
C16_CreateStampsIdentity ==
    [][ (lastOp'.op = "Create" /\ lastOp'.err = OK /\ entityKind = "rich"
            /\ lastOp'.layer \in {"audit", "mongoaudit"})
            => LET stored == IF lastOp'.layer = "audit" THEN data'[lastOp'.id]
                             ELSE Decode(coll'[lastOp'.id])
               IN /\ stored.ID # NilUUID
                  /\ stored.TenantID = lastOp'.tenant
                  /\ stored.Active = TRUE ]_vars

\* C17: a successful Create through the generic audit decorator of an entity
\* with only the legacy hooks stamps created-at and updated-at with the action
\* timestamp of the context and created-by and updated-by with the actor; after
\* a later successful Update, updated-at is not earlier than created-at.
C17_LegacyStamped ==
    [][ (lastOp'.layer = "audit" /\ lastOp'.err = OK /\ entityKind = "legacy" /\ lastOp' # lastOp)
            => LET stored == data'[lastOp'.id]
               IN /\ lastOp'.op = "Create"
                        => /\ stored.CreatedAt = now /\ stored.UpdatedAt = now
                           /\ stored.CreatedBy \in CtxUsers /\ stored.UpdatedBy \in CtxUsers
                  /\ lastOp'.op = "Update"
                        => stored.UpdatedAt >= stored.CreatedAt ]_vars

\* C18: every record returned by a list read of the in-memory store, directly
\* or through the generic audit decorator, satisfies the name filter the caller
\* supplied, and a read through the decorator under tenant t returns only
\* records of tenant t (stated for entities with the rich hooks, whose tenant
\* the decorator stamps).
C18_ReadsHonourFilters ==
    [][ (lastOp'.layer \in {"audit", "memory"} /\ lastOp'.err = OK
            /\ lastOp'.op \in {"GetFirst", "GetAll", "GetAllSkipTake", "List"})
            => \A n \in 1..Len(lastOp'.out) :
                  /\ "name" \in DOMAIN lastOp'.filters
                        => Str(lastOp'.out[n].Name) = lastOp'.filters.name
                  /\ (lastOp'.layer = "audit" /\ entityKind = "rich")
                        => lastOp'.out[n].TenantID = lastOp'.tenant ]_vars

\* C19: on one shared in-memory repository and one shared cache store, no two
\* calls are in the middle of an access to the same underlying map, at least
\* one of them writing it, unless both hold the lock.
C19_NoUnsynchronizedAccess ==
    \A g \in Goroutines, h \in Goroutines : g # h => ~Conflicts(calls[g], calls[h])

\* C19, second part: no call on the shared stores ends in the runtime's fatal
\* error for a concurrent map access, an outcome no sequential order of the
\* calls has.
C19_NoFatalOutcome == lastOp.err # Fatal

\* C20: a Get of a key of the in-memory cache store, made before the expiry
\* of the last Set of that key (the instant of the Set plus its ttl, or plus
\* the default TTL when ttl is 0), returns the value of that Set and true; a
\* Get made at or after that expiry returns not-found.
C20_GetWithinTTL ==
    [][ (lastOp'.layer = "memcache" /\ lastOp'.op = "Get" /\ lastSet[lastOp'.id] # None
            /\ now' = now /\ size' = size)
            => LET set == lastSet[lastOp'.id][1]
               IN IF now < set.expiresAt
                  THEN lastOp'.hit /\ lastOp'.out = <<set.value>>
                  ELSE ~lastOp'.hit /\ lastOp'.out = <<>> ]_vars

\* A Get served from the cache one tick after the Set and before its expiry.
C20_Witness ==
    /\ lastOp.layer = "memcache" /\ lastOp.op = "Get" /\ lastOp.hit
    /\ lastSet[lastOp.id] # None
    /\ lastSet[lastOp.id][1].at < now /\ now < lastSet[lastOp.id][1].expiresAt

C22_WriteInvalidatesList ==
    [][ (lastOp'.layer = "cache" /\ lastOp' # lastOp)
            => LET listKey == KeyPrefix \o makeTenantKey("list", lastOp'.tenant)
               IN /\ (lastOp'.op \in {"Create", "Update", "Delete"} /\ lastOp'.err # OK)
                        => items' = items
                  /\ (lastOp'.op \in {"Create", "Update", "Delete"} /\ lastOp'.err = OK
                        /\ lastOp'.tenant # "")
                        => listKey \notin DOMAIN items'
                  /\ (lastOp'.op = "GetAll" /\ lastOp.layer = "cache"
                        /\ lastOp.op \in {"Create", "Update", "Delete"} /\ lastOp.err = OK
                        /\ lastOp.tenant = lastOp'.tenant)
                        => /\ ~lastOp'.hit /\ lastOp'.delegated
                           /\ \E order \in Orders :
                                 lastOp'.out = Base_GetAll(baseKind, data, coll,
                                                   TenantInfo(lastOp'.tenant, "user1"),
                                                   order, lastOp'.filters).out ]_vars

\* A GetAll answered by the wrapped store after a write that found the
\* tenant's list cached.
C22_Witness ==
    /\ lastOp.layer = "cache" /\ lastOp.op = "GetAll"
    /\ lastOp.afterWrite = "invalidated" /\ lastOp.delegated /\ lastOp.out # <<>>

C24_FilterLimit ==
    (lastOp.layer = "mongoaudit" /\ lastOp.op \in ReadsWithFilter)
    => LET n == Cardinality(DOMAIN lastOp.filters)
       IN /\ n > MaxFilterKeys => (lastOp.err = Validation /\ lastOp.queries = <<>>)
          /\ n <= MaxFilterKeys
                => /\ lastOp.err # Validation
                   /\ lastOp.queries # <<>>
                   /\ \A q \in 1..Len(lastOp.queries) :
                         /\ "$where" \notin DOMAIN lastOp.queries[q]
                         /\ "name" \in DOMAIN lastOp.filters
                               => ("name" \in DOMAIN lastOp.queries[q]
                                   /\ lastOp.queries[q]["name"] = lastOp.filters["name"])

\* C24 for the reads that sanitize their filters: GetFirst, GetAll and List.
C24_SanitizingReadsLimit ==
    lastOp.op \in {"GetFirst", "GetAll", "List"} => C24_FilterLimit

\* Only letters, digits and underscores.
IdentifierChars(k) ==
    \A i \in 1..Len(k) : InChars(CharAt(k, i), UpperChars \o LowerChars \o DigitChars \o "_")

\* C25: sanitization keeps a filter key, its value being acceptable, if and
\* only if the key is in the whitelist, or consists only of letters, digits
\* and underscores, has at most 50 characters and contains no blocked
\* substring.
C25_KeyKeptIffSafe ==
    (lastOp.layer = "sanitizer" /\ lastOp.op = "sanitizeFilters" /\ lastOp.err = OK)
    => \A k \in DOMAIN lastOp.filters :
          sanitizeFilterValue(lastOp.filters[k]).ok
             => (k \in DOMAIN lastOp.out[1]
                   <=> \/ k \in allowedFilterKeys
                       \/ /\ IdentifierChars(k)
                          /\ Len(k) <= 50
                          /\ \A pat \in dangerousKeyPatterns : ~Contains(ToLower(k), pat))

\* C25 for keys that start with a letter or an underscore.
C25_LetterFirstKeys ==
    (lastOp.layer = "sanitizer"
        /\ \A k \in DOMAIN lastOp.filters :
              InChars(CharAt(k, 1), UpperChars \o LowerChars \o "_$"))
    => C25_KeyKeptIffSafe

RECURSIVE Depth(_)
\* The number of objects a value is nested in, itself included (0 for a scalar).
Depth(v) ==
    IF v[1] = "map"
    THEN IF DOMAIN v[2] = {} THEN 1
         ELSE 1 + Depth(v[2][CHOOSE k \in DOMAIN v[2] : \A x \in DOMAIN v[2] : Depth(v[2][x]) <= Depth(v[2][k])])
    ELSE 0

\* C26: a filter value whose objects are nested more than 3 levels deep is
\* rejected as a whole: its key is absent from the sanitized filter set.
C26_DeepNestingRejected ==
    (lastOp.layer = "sanitizer" /\ lastOp.op = "sanitizeFilters" /\ lastOp.err = OK)
    => \A k \in DOMAIN lastOp.filters :
          Depth(lastOp.filters[k]) > MaxNesting => k \notin DOMAIN lastOp.out[1]

RECURSIVE Unsafe(_)
\* A value that holds, at some position, a string with a blocked substring,
\* a key containing "$", or a value of a type that is not accepted.
Unsafe(v) ==
    CASE v[1] = "str" -> \E pat \in dangerousValuePatterns : Contains(ToLower(v[2]), pat)
      [] v[1] = "map" -> \E k \in DOMAIN v[2] : Contains(k, "$") \/ Unsafe(v[2][k])
      [] v[1] = "arr" -> Len(v[2]) > MaxArrayLen \/ \E i \in 1..Len(v[2]) : Unsafe(v[2][i])
      [] v[1] \in {"nil", "int", "bool", "oid", "uuid", "bin"} -> FALSE
      [] OTHER -> TRUE

\* C27: no value of the sanitized filter set holds, at any position (top level,
\* nested object, array element), a string with a blocked substring or a key
\* containing "$", nor is of a type outside the accepted ones.
C27_RejectByDefault ==
    (lastOp.layer = "sanitizer" /\ lastOp.op = "sanitizeFilters" /\ lastOp.err = OK)
    => \A k \in DOMAIN lastOp.out[1] : ~Unsafe(lastOp.out[1][k])

\* C28: the tracker never holds more than MaxEndpoints endpoint keys; a
\* RecordRequest for a new key at the cap leaves the map as it was, and a
\* RecordRequest for a tracked key adds one to that key's request count.
C28_EndpointsCapped ==
    [][ /\ Cardinality(DOMAIN stats') <= MaxEndpoints
        /\ \A g \in Goroutines :
              (calls[g].op = "RecordRequest" /\ calls'[g] = Idle) =>
                 LET key == calls[g].id
                 IN /\ (key \notin DOMAIN stats /\ Cardinality(DOMAIN stats) >= MaxEndpoints)
                          => stats' = stats
                    /\ key \in DOMAIN stats
                          => /\ key \in DOMAIN stats'
                             /\ stats'[key].Requests = stats[key].Requests + 1 ]_vars

\* The map is full, the request just recorded was for an untracked key and was
\* ignored, and a tracked key has been counted twice.
C28_Witness ==
    /\ Cardinality(DOMAIN stats) = MaxEndpoints
    /\ lastOp.layer = "metrics" /\ lastOp.op = "RecordRequest"
    /\ lastOp.id \notin DOMAIN stats
    /\ \E k \in DOMAIN stats : stats[k].Requests = 2

\* C29: once every call through the Cache decorator has returned, each entry
\* the cache holds under an item key decodes to the entity the wrapped store
\* holds under that ID now (and there is no entry for an ID the store does not
\* hold), whatever the interleaving of GetByID with Update or Delete was.
C29_NoStaleEntry ==
    AllReturned =>
        \A id \in IDs :
            HasEntry(id) =>
                /\ data[id] # NoDoc
                /\ Unmarshal(items[KeyPrefix \o makeKey("get", id)].data) = data[id]

\* With the calls made one after another the cache never holds a stale entry.
C29_SerialNoStaleEntry ==
    AllReturned =>
        \A id \in IDs :
            HasEntry(id) =>
                /\ data[id] # NoDoc
                /\ data[id] = Unmarshal(items[KeyPrefix \o makeKey("get", id)].data)

\* C30: an Update through the History decorator during which no other Update
\* of the same ID was in progress records, for every changed field, the value
\* its own write replaced as the before value.  (That two overlapping Updates
\* can record another value is what C30_Witness reaches.)
C30_SerialBeforeIsOverwritten ==
    [][ \A g \in Goroutines :
           ( /\ calls[g].op = "Update" /\ calls[g].pc = "history.RecordChanges"
             /\ calls'[g].op = "idle"
             /\ calls[g].alone
             /\ histLog' # histLog )
           => LET e == histLog'[Len(histLog')]
              IN \A f \in DOMAIN e.Changes :
                    e.Changes[f].Before = calls[g].overwrote[1][f] ]_vars

\* The Update that just returned recorded an entry whose before value of Name
\* is not the Name its write replaced.
C30_Witness ==
    /\ lastOp.layer = "sharedhistory"
    /\ lastOp.recorded # None
    /\ "Name" \in DOMAIN lastOp.recorded[1].Changes
    /\ lastOp.recorded[1].Changes.Name.Before # lastOp.overwrote[1].Name

\* C31: a GetAll/List through the Cache decorator returns what the wrapped
\* store's GetAll returns for the same tenant and the same filters in the
\* state the call is made in.
C31_ListMatchesStore ==
    (lastOp.layer = "cache" /\ lastOp.op = "GetAll" /\ lastOp.err = OK)
        => \E order \in Orders :
              lastOp.out = Base_GetAll(baseKind, data, coll, TenantInfo(lastOp.tenant, "user1"),
                                       order, lastOp.filters).out

\* The same for the calls the decorator hands to the wrapped store.
C31_DelegatedListMatchesStore ==
    (lastOp.layer = "cache" /\ lastOp.op = "GetAll" /\ lastOp.err = OK /\ lastOp.delegated)
        => \E order \in Orders :
              lastOp.out = Base_GetAll(baseKind, data, coll, TenantInfo(lastOp.tenant, "user1"),
                                       order, lastOp.filters).out

\* The sum of the payload lengths of the entries of a cache map.
RECURSIVE StoredBytes(_)
StoredBytes(its) ==
    IF DOMAIN its = {} THEN 0
    ELSE LET k == CHOOSE x \in DOMAIN its : TRUE
         IN PayloadLen(its[k].data) + StoredBytes(Without(its, k))

\* C32: mc.size equals the sum of the payload lengths of the entries stored,
\* and is never negative.
C32_SizeIsStoredBytes == size = StoredBytes(items) /\ size >= 0

\* The weaker half: the counter is never negative when calls do not overlap.
C32_SizeNeverNegative == size >= 0

C34_ExpiredEventuallySwept ==
    \A key \in CacheKeys :
        LET k == KeyPrefix \o key
            ExpiredStored == k \in DOMAIN items /\ now > items[k].expiresAt
        IN ExpiredStored ~> ~ExpiredStored

\* The last call was the Set of a key, and the entry it stored has expired and
\* is gone without any call after it.
C34_Witness ==
    /\ lastOp.layer = "memcache" /\ lastOp.op = "Set"
    /\ lastSet[lastOp.id] # None
    /\ now > lastSet[lastOp.id][1].expiresAt
    /\ (KeyPrefix \o lastOp.id) \notin DOMAIN items

\* C35: the history log only grows at its end, by at most one entry per step,
\* and only in a step that is a successful Update through the History
\* decorator; the entries already there stay as they are.
C35_HistoryAppendOnly ==
    [][ /\ Len(histLog') >= Len(histLog)
        /\ Len(histLog') <= Len(histLog) + 1
        /\ SubSeq(histLog', 1, Len(histLog)) = histLog
        /\ histLog' # histLog
              => lastOp'.layer = "history" /\ lastOp'.op = "Update" /\ lastOp'.err = OK ]_vars

\* An Update that failed, with entries already in the log.
C35_Witness ==
    /\ Len(histLog) >= 1
    /\ lastOp.layer = "history" /\ lastOp.op = "Update" /\ lastOp.err # OK

\* C36: an Update through the History decorator whose fetch and whose wrapped
\* Update succeed returns the wrapped Update's entity with no error and leaves
\* the wrapped Update's write in the store, also when the history entry could
\* not be inserted (the log is then as it was).
C36_HistoryFailureAbsorbed ==
    [][ (lastOp'.layer = "faultyhistory" /\ lastOp' # lastOp)
            => LET ti == TenantInfo(lastOp'.tenant, "user1")
                   fetched == MAR_GetByID(coll, ti, lastOp'.id)
                   base == MAR_Update(coll, ti, lastOp'.id, lastOp'.entity[1])
               IN (fetched.err = OK /\ base.err = OK)
                     => /\ lastOp'.err = OK
                        /\ lastOp'.out = base.out
                        /\ coll' = base.coll
                        /\ lastOp'.afterWrite = "fail" => histLog' = histLog ]_vars

\* An Update that returned its entity although the history entry was not stored.
C36_Witness ==
    /\ lastOp.layer = "faultyhistory" /\ lastOp.afterWrite = "fail"
    /\ lastOp.err = OK /\ lastOp.out # <<>>
    /\ coll[lastOp.id] # NoDoc

AuditReads == {"GetFirst", "GetAll", "GetAllSkipTake", "List"}

C37_TenantInjected ==
    (lastOp.layer = "audit" /\ lastOp.op \in AuditReads)
        => LET handed == lastOp.queries[1]
           IN /\ lastOp.tenant # ""
                    => "tenant_id" \in DOMAIN handed /\ handed.tenant_id = Str(lastOp.tenant)
              /\ (lastOp.tenant = "" /\ lastOp.filters = <<>>) => "tenant_id" \notin DOMAIN handed

TenantScopedOps == {"GetByID", "GetFirst", "GetAll", "GetAllSkipTake", "Update", "Delete"}

\* C38: an operation of the audited document store under a non-empty tenant ID
\* that does not fail has sent only queries that constrain tenant_id to that
\* tenant, and every record it returned belongs to that tenant.
C38_ScopedOrFails ==
    (/\ lastOp.layer = "mongoaudit" /\ lastOp.op \in TenantScopedOps
     /\ lastOp.tenant # "" /\ lastOp.err = OK)
    => /\ \A n \in 1..Len(lastOp.queries) :
             /\ "tenant_id" \in DOMAIN lastOp.queries[n]
             /\ lastOp.queries[n]["tenant_id"] = Bin(lastOp.tenant)
       /\ \A n \in 1..Len(lastOp.out) : lastOp.out[n].TenantID = lastOp.tenant

\* The same for tenant IDs that are well-formed UUIDs.
C38_ParseableScoped == ParseOK(lastOp.tenant) => C38_ScopedOrFails

\* C39: every call of GetStats returns.
C39_GetStatsTerminates ==
    \A g \in Goroutines : (calls[g].op = "GetStats") ~> (calls[g].op = "idle")

\* A reader inside GetStats waits for its second read lock behind a writer
\* that waits for the reader's first.
GetStatsDeadlocked ==
    \E g \in Goroutines, h \in Goroutines :
        /\ calls[g].op = "GetStats" /\ calls[g].pc = "GetMemoryUsage.RLock"
        /\ calls[h].pc = "Lock.wait"

\* Every call of the writers returns unless GetStats is stuck that way.
C39_WritersTerminateUnlessDeadlocked ==
    \A g \in Goroutines :
        (calls[g].op \in MetricsWriters) ~> (calls[g].op = "idle" \/ GetStatsDeadlocked)

\* The writes of the two audit decorators.
AuditWrite(o) == o.layer \in {"audit", "mongoaudit"} /\ o.op \in {"Create", "Update", "Delete"}

\* C40: Create, Update and Delete through the audit decorators return a result
\* or an error of the taxonomy, whatever the Tenant Context holds.
C40_WritesReturn == AuditWrite(lastOp) => lastOp.err \in {OK, NotFound, Internal}

\* With a tenant ID that is a UUID and an actor ID that is a UUID or absent,
\* the writes return.
C40_WellFormedWritesReturn ==
    [][(AuditWrite(lastOp') /\ lastOp' # lastOp /\ lastOp'.tenant = TenantA
          /\ (coll' # coll \/ data' # data))
       => lastOp'.err = OK]_vars

\* A write that does not return leaves both stores as they were.
C40_AbortedWriteStoresNothing ==
    [][(AuditWrite(lastOp') /\ lastOp'.err = Panic) => (coll' = coll /\ data' = data)]_vars

============================================================================
